---- MODULE Spec2Model ----
(***************************************************************************)
(* A model of cubicli's process supervisor (services/process-manager.ts),  *)
(* its state store and port reconciler (services/state.ts) and the parts   *)
(* of the terminal UI (ui/app.ts) that drive them.                         *)
(*                                                                         *)
(* Asynchrony.  The program is one event loop.  A piece of code between    *)
(* two real asynchronous completions (a file read or write, a timer, a     *)
(* child's exit, a wait for a kill) runs without interruption; an await    *)
(* of an already settled promise does not let another handler in.  Every   *)
(* action below is one such uninterrupted piece.  A loadState is taken at  *)
(* the moment its continuation runs: the read and the code up to the next  *)
(* real await are one action.  A saveState is the write reaching the file, *)
(* followed (for the exit handler, which has code after it) by the         *)
(* continuation.  The file is read and written whole, except under         *)
(* SpecSave, which follows a write from its opening of the file.           *)
(***************************************************************************)
EXTENDS Integers, Sequences, FiniteSets, TLC

(* ------------------------------ bounds -------------------------------- *)

\* How many of the configured PROJECTS and APPS the model runs.
NumProjects == 2
NumApps == 1
\* Children the supervisor may spawn in one run, and user operations issued.
MaxPid == 2
MaxOps == 3
\* Processes left over from a previous session of the tool.
MaxPrev == 2
\* Ports handed to ensurePortsAvailable, and times other programs take a port.
NumPorts == 2
MaxOccupy == 2
\* The capacity of a log buffer (10000 in the program, process-manager.ts:7):
\* the model runs the ring buffer with a small capacity.
MAX_LOG_LINES == 3
\* Calls of addLogLine / clearLogBuffer / loadLogsFromFile in one run.
MaxLogCalls == 4
\* The longest search query typed, and the height of the log view
\* (terminalHeight - 6).
MaxQuery == 2
LogViewHeight == 1
\* Liveness polls of killProcessTree before its timeout (5000 ms / 100 ms in
\* the program).
KillPolls == 2
\* Times the render loop's interval fires in one run, and the updateStats
\* calls from one truncation of the log files to the next (60 in the program).
MaxTicks == 3
TruncateEvery == 2

(* --------------------------- configuration ---------------------------- *)

PORT_OFFSET == 100
AppBasePort == <<5555, 4200, 4201>>
DOPPLER_CONFIGS == {"dev", "dev_guy"}

Projects == 1..NumProjects
Apps == 1..NumApps
\* PROJECTS[i].index is 0, 1, 2 for the first, second, third project.
ProjectIndex(p) == p - 1

\* The offset left out: neighbouring base ports of neighbouring projects collide.
getPortForAppByIndex(a, p) == AppBasePort[a] + ProjectIndex(p)
getPortForApp(a, p) == AppBasePort[a] + (ProjectIndex(p) * PORT_OFFSET)
getProjectPorts(p) == [a \in Apps |-> getPortForApp(a, p)]

(* ------------------------ JavaScript objects -------------------------- *)

\* An object or Map is a function whose domain is its set of keys.
EmptyMap == <<>>
Has(m, k) == k \in DOMAIN m
Put(m, k, v) == (k :> v) @@ m
Del(m, k) == [x \in DOMAIN m \ {k} |-> m[x]]
Values(m) == {m[k] : k \in DOMAIN m}
Null == 0

(* ---------------------------- state store ----------------------------- *)

Statuses == {"starting", "running", "stopped", "error"}

DEFAULT_STATE ==
  [activeProject |-> Null, dopplerConfig |-> "dev", startedAt |-> Null,
   processes |-> EmptyMap]

\* The state file: absent, not parseable, or a JSON object (json: its fields).
NoFile == [kind |-> "absent", json |-> EmptyMap]
CorruptFile == [kind |-> "corrupt", json |-> EmptyMap]

\* {...DEFAULT_STATE, ...JSON.parse(content)}; the default on any failure.
loadState(f) == IF f.kind = "json" THEN f.json @@ DEFAULT_STATE ELSE DEFAULT_STATE

\* writeFile(STATE_FILE, JSON.stringify(state))
saveState(state) == [kind |-> "json", json |-> state]

\* state.activeProjects is undefined unless the file held the field: reading
\* a key of it then throws a TypeError.
HasActiveProjects(state) == Has(state, "activeProjects")

ProcessInfo(pid, port, status) == [pid |-> pid, port |-> port, status |-> status]

(* ------------------------------ variables ----------------------------- *)

VARIABLES
  file,         \* the state file on disk
  alive,        \* the PIDs the OS has running
  processes,    \* ProcessManager.processes: alias -> app -> spawned PID
  adoptedPids,  \* ProcessManager.adoptedPids: alias -> app -> PID
  children,     \* per spawned PID: its project, app, readiness timer, exit handler
  op,           \* the ProcessManager operation in progress
  boot,         \* TUIApp.start: where it is
  nextPid,      \* the next PID the OS hands to a spawned child
  opCount,      \* operations issued so far
  holder,       \* per port: what holds it
  ens,          \* the ensurePortsAvailable call in progress
  kp,           \* per port: the killProcessesOnPort call in progress
  bind,         \* the caller's own bind attempt after the call
  occupied,     \* times a port has been taken by another program
  logBuffers,   \* ProcessManager.logBuffers: "alias:app" -> lines
  logFiles,     \* the log files on disk: "alias:app" -> lines, absent without file
  logWrites,    \* appendFile / writeFile calls on log files not yet done
  lastLog,      \* the last addLogLine call: what it returned and reported
  onLogUpdate,  \* ProcessManager.onLogUpdate: the change callback, if registered
  tui           \* TUIApp: the view and its search, the render loop

supervisorVars == <<file, alive, processes, adoptedPids, children, op, boot,
                    nextPid, opCount>>
portVars == <<holder, ens, kp, bind, occupied>>
logVars == <<logBuffers, logFiles, logWrites, lastLog, onLogUpdate>>
vars == <<file, alive, processes, adoptedPids, children, op, boot, nextPid,
          opCount, holder, ens, kp, bind, occupied, logBuffers, logFiles,
          logWrites, lastLog, onLogUpdate, tui>>

PrevPids == (MaxPid + 1)..(MaxPid + MaxPrev)
ExitCodes == {0, 1}

isProcessRunning(pid) == pid \in alive

(* ----------------------- ProcessManager queries ----------------------- *)

isProjectRunning(p) ==
  \/ Has(processes, p) /\ DOMAIN processes[p] # {}
  \/ Has(adoptedPids, p) /\ DOMAIN adoptedPids[p] # {}

isAppRunning(p, a) ==
  \/ Has(processes, p) /\ Has(processes[p], a)
  \/ Has(adoptedPids, p) /\ Has(adoptedPids[p], a)

isRunning ==
  \/ \E p \in DOMAIN processes : DOMAIN processes[p] # {}
  \/ \E p \in DOMAIN adoptedPids : DOMAIN adoptedPids[p] # {}

\* The PIDs tracked for one app, and for one project, in either map.
TrackedAppPids(p, a) ==
  (IF Has(processes, p) /\ Has(processes[p], a) THEN {processes[p][a]} ELSE {})
    \cup
  (IF Has(adoptedPids, p) /\ Has(adoptedPids[p], a) THEN {adoptedPids[p][a]} ELSE {})

TrackedPids(p) == UNION {TrackedAppPids(p, a) : a \in Apps}
AllTrackedPids == UNION {TrackedPids(p) : p \in Projects}

(* ----------------------------- state files ---------------------------- *)

ProjectState(cfg, at, procs) ==
  [dopplerConfig |-> cfg, startedAt |-> at, processes |-> procs]

\* A multi-project state file holding the given activeProjects.
MultiFile(activeProjects) ==
  saveState([dopplerConfig |-> "dev", activeProjects |-> activeProjects])

EmptyFile == MultiFile(EmptyMap)

\* What a previous session can have left of one project: records of some of
\* its apps, each with a PID of that session and any status.
PrevProcesses(p) ==
  UNION {{f \in [as -> [pid : PrevPids, port : {getPortForApp(a, p) : a \in as},
                        status : Statuses]] :
            \A a \in as : f[a].port = getPortForApp(a, p)} : as \in SUBSET Apps}

PrevActiveProjects ==
  UNION {{f \in [ps -> UNION {{ProjectState("dev", 1, procs) : procs \in PrevProcesses(p)}
                                : p \in ps}] :
            \A p \in ps : f[p].processes \in PrevProcesses(p)} : ps \in SUBSET Projects}

\* The single-project layout of the first version of the tool.
LegacyFile(pid, status) ==
  saveState([activeProject |-> 1, dopplerConfig |-> "dev", startedAt |-> 1,
             processes |-> (1 :> ProcessInfo(pid, AppBasePort[1], status))])

\* The first app of the first project, left running by the previous session.
PrevPid == MaxPid + 1
PrevFile ==
  MultiFile(1 :> ProjectState("dev", 1,
                   (1 :> ProcessInfo(PrevPid, getPortForApp(1, 1), "running"))))

(* ------------------------------ log buffers ---------------------------- *)

\* A log line is a sequence of tokens: a character, or ESC, one SGR escape
\* sequence (\x1b[...m) as the apps print them under FORCE_COLOR.
ESC == "ESC"
Keys == {"a", "A", "b"}
LogLines == {<<"a", "b">>, <<"A", "b">>, <<"a", ESC, "b">>, <<"b">>}

makeLogKey(projectAlias, appName) == <<projectAlias, appName>>
LogKeys == {makeLogKey(p, a) : p \in Projects, a \in Apps}

\* this.logBuffers.get(key) || {lines: []}, its lines.
getLogBuffer(p, a) ==
  IF Has(logBuffers, makeLogKey(p, a)) THEN logBuffers[makeLogKey(p, a)] ELSE <<>>

\* line.trim() is not the empty string.
NonBlank(line) == \E i \in DOMAIN line : line[i] # " "

\* content.split('\n') of a file in which every line ends with a line break:
\* the lines, and the empty string after the last line break.
SplitLines(content) == Append(content, <<>>)

Max(x, y) == IF x >= y THEN x ELSE y
Min(x, y) == IF x <= y THEN x ELSE y

\* lines.slice(-n)
SliceLast(lines, n) ==
  IF Len(lines) <= n THEN lines ELSE SubSeq(lines, Len(lines) - n + 1, Len(lines))

\* What loadLogsFromFile keeps when it keeps every line.
AllLogLines(content) == SelectSeq(SplitLines(content), NonBlank)
\* What loadLogsFromFile keeps of the first lines instead of the last.
FirstLogLines(content) ==
  LET lines == SelectSeq(SplitLines(content), NonBlank)
  IN SubSeq(lines, 1, Min(Len(lines), MAX_LOG_LINES))
\* What loadLogsFromFile puts into the buffer for a file of this content.
RecentLines(content) == SliceLast(SelectSeq(SplitLines(content), NonBlank), MAX_LOG_LINES)

\* The log update handler TUIApp.start registers: it keeps the log view at the
\* end of the viewed buffer, or on the same content when the buffer shifts.
LogUpdateHandler(t, p, a, didShift, lines) ==
  IF t.viewMode = "logs" /\ p = t.selectedLogProject + 1 /\ a = t.selectedLogApp + 1
    THEN IF t.logFollowMode
           THEN [t EXCEPT !.logScrollOffset = Max(0, Len(lines) - LogViewHeight)]
           ELSE IF didShift /\ t.logScrollOffset > 0
                  THEN [t EXCEPT !.logScrollOffset = Max(0, @ - 1)]
                  ELSE t
    ELSE t

\* The buffer keeps every line, never evicting.
AddLogLineKeepAll(p, a, line) ==
  /\ lastLog.seq < MaxLogCalls
  /\ LET lines == Append(getLogBuffer(p, a), line)
         didShift == FALSE
     IN /\ logBuffers' = Put(logBuffers, makeLogKey(p, a), lines)
        /\ logWrites' = Append(logWrites, [key |-> makeLogKey(p, a), line |-> line])
        /\ lastLog' = [seq |-> lastLog.seq + 1, kind |-> "addLogLine",
                       key |-> makeLogKey(p, a), line |-> line, returned |-> didShift,
                       notified |-> IF onLogUpdate = "set"
                                      THEN <<[project |-> p, app |-> a, line |-> line,
                                              didShift |-> didShift]>>
                                      ELSE <<>>]
        /\ tui' = IF onLogUpdate = "set"
                    THEN LogUpdateHandler(tui, p, a, didShift, lines) ELSE tui
  /\ UNCHANGED <<logFiles, onLogUpdate, supervisorVars, portVars>>
\* addLogLine: push, shift the oldest line out when over the limit, append to
\* the log file (fire and forget), call the change callback.
AddLogLine(p, a, line) ==
  /\ lastLog.seq < MaxLogCalls
  /\ LET pushed == Append(getLogBuffer(p, a), line)
         didShift == Len(pushed) > MAX_LOG_LINES
         lines == IF didShift THEN Tail(pushed) ELSE pushed
     IN /\ logBuffers' = Put(logBuffers, makeLogKey(p, a), lines)
        /\ logWrites' = Append(logWrites, [key |-> makeLogKey(p, a), line |-> line])
        /\ lastLog' = [seq |-> lastLog.seq + 1, kind |-> "addLogLine",
                       key |-> makeLogKey(p, a), line |-> line, returned |-> didShift,
                       notified |-> IF onLogUpdate = "set"
                                      THEN <<[project |-> p, app |-> a, line |-> line,
                                              didShift |-> didShift]>>
                                      ELSE <<>>]
        /\ tui' = IF onLogUpdate = "set"
                    THEN LogUpdateHandler(tui, p, a, didShift, lines) ELSE tui
  /\ UNCHANGED <<logFiles, onLogUpdate, supervisorVars, portVars>>

\* clearLogBuffer of each of the given apps: an empty buffer, and a writeFile
\* of the empty string on its log file.  That write is not awaited; the model
\* takes it as done at once (the appends of addLogLine are not).
clearLogBuffer(m, p, apps) ==
  [key \in {makeLogKey(p, a) : a \in apps} |-> <<>>] @@ m

\* One clearLogBuffer call.
ClearLogBuffer(p, a) ==
  /\ lastLog.seq < MaxLogCalls
  /\ logBuffers' = clearLogBuffer(logBuffers, p, {a})
  /\ logFiles' = clearLogBuffer(logFiles, p, {a})
  /\ lastLog' = [seq |-> lastLog.seq + 1, kind |-> "clearLogBuffer",
                 key |-> makeLogKey(p, a), line |-> <<>>, returned |-> FALSE,
                 notified |-> <<>>]
  /\ UNCHANGED <<logWrites, onLogUpdate, tui, supervisorVars, portVars>>

\* One loadLogsFromFile call: nothing without the file.
LoadLogsFromFile(p, a) ==
  /\ lastLog.seq < MaxLogCalls
  /\ logBuffers' =
       IF Has(logFiles, makeLogKey(p, a))
         THEN Put(logBuffers, makeLogKey(p, a), RecentLines(logFiles[makeLogKey(p, a)]))
         ELSE logBuffers
  /\ lastLog' = [seq |-> lastLog.seq + 1, kind |-> "loadLogsFromFile",
                 key |-> makeLogKey(p, a), line |-> <<>>, returned |-> FALSE,
                 notified |-> <<>>]
  /\ UNCHANGED <<logFiles, logWrites, onLogUpdate, tui, supervisorVars, portVars>>

\* A pending appendFile(path, line + '\n') is done.  Nothing orders the
\* pending appends.
LogWriteDone(i) ==
  /\ i \in DOMAIN logWrites
  /\ LET w == logWrites[i]
         content == IF Has(logFiles, w.key) THEN logFiles[w.key] ELSE <<>>
     IN logFiles' = Put(logFiles, w.key, Append(content, w.line))
  /\ logWrites' = SubSeq(logWrites, 1, i - 1) \o SubSeq(logWrites, i + 1, Len(logWrites))
  /\ UNCHANGED <<logBuffers, lastLog, onLogUpdate, tui, supervisorVars, portVars>>

NoLog ==
  [seq |-> 0, kind |-> "none", key |-> <<0, 0>>, line |-> <<>>, returned |-> FALSE,
   notified |-> <<>>]

\* The log side of a ProcessManager as constructed, with no log file on disk.
LogsNew ==
  /\ logBuffers = EmptyMap
  /\ logFiles = EmptyMap
  /\ logWrites = <<>>
  /\ lastLog = NoLog
  /\ onLogUpdate = "unset"

\* The log files a previous session can have left: lines the tool wrote, each
\* ended by a line break, more of them than the buffer holds or fewer.
PrevLogFiles ==
  LET lines == {<<"a", "b">>, <<"b">>}
      contents == UNION {[1..n -> lines] : n \in 0..(MAX_LOG_LINES + 1)}
  IN {EmptyMap} \cup {(makeLogKey(1, 1) :> content) : content \in contents}

\* TUIApp's constructor.  Kept with the state of the UI: the runs of the
\* render loop's callback that are in progress (ticks) and how many have
\* fired; ProcessManager.truncateCounter, which they advance, and the number
\* of updateStats calls that have come to it; and the runs of
\* toggleSelectedProject that are in progress (toggles), where the key handler
\* is followed call by call; and ProcessManager.portListening, which
\* updateStats fills.
TuiNew ==
  [viewMode |-> "dashboard", selectedProjectIndex |-> 0, selectedLogApp |-> 0,
   selectedLogProject |-> 0, logScrollOffset |-> 0, logFollowMode |-> TRUE,
   searchMode |-> FALSE, searchQuery |-> <<>>, searchMatches |-> <<>>,
   searchMatchIndex |-> 0, quitConfirmMode |-> FALSE,
   ticks |-> <<>>, fired |-> 0, statsCalls |-> 0, truncateCounter |-> 0,
   toggles |-> <<>>, portListening |-> EmptyMap]

(* ------------------------------- Init --------------------------------- *)

IdleOp ==
  [kind |-> "none", pc |-> "idle", proj |-> 0, app |-> 0, cfg |-> "dev",
   st |-> EmptyMap, targets |-> EmptyMap, queue |-> {}, tracked0 |-> {},
   signalled |-> {}, kill |-> EmptyMap]

NoCall ==
  [pc |-> "none", ports |-> <<>>, retry |-> 0, passed |-> {}, result |-> "none",
   disturbed |-> FALSE]

\* No port call is in progress and every port is free.
PortsAtRest ==
  /\ holder = [i \in 1..NumPorts |-> "free"]
  /\ ens = NoCall
  /\ kp = [i \in 1..NumPorts |-> [pc |-> "idle", attempt |-> 0]]
  /\ bind = "none"
  /\ occupied = 0

\* The supervisor as constructed, TUIApp.start not yet run.
SupervisorNew ==
  /\ processes = EmptyMap
  /\ adoptedPids = EmptyMap
  /\ children = EmptyMap
  /\ op = IdleOp
  /\ boot = [pc |-> "new", st |-> EmptyMap, dead |-> {}]
  /\ nextPid = 1

\* The tool is started on the state file of a session that ended cleanly, or
\* on one that left an app running: the start of that project, at time 1, is
\* then the first of the operations counted.
Init ==
  /\ \/ file = EmptyFile /\ alive = {} /\ opCount = 0
     \/ file = PrevFile /\ alive = {PrevPid} /\ opCount = 1
  /\ SupervisorNew
  /\ PortsAtRest
  /\ LogsNew
  /\ tui = TuiNew

(* --------------------- the OS: children come and go -------------------- *)

\* A running process ends, by itself or by a signal.  For a child spawned in
\* this run, proc.exited settles and its handler is due.
ProcessExit(pid) ==
  /\ pid \in alive
  /\ alive' = alive \ {pid}
  /\ children' = IF Has(children, pid)
                   THEN [children EXCEPT ![pid].exit = "exited"]
                   ELSE children
  /\ UNCHANGED <<file, processes, adoptedPids, op, boot, nextPid, opCount, portVars, logVars, tui>>

(* ------------------- startApp: what a spawn leaves behind -------------- *)

\* The bookkeeping of one spawned child: the closure variables of its
\* setTimeout callback and of its proc.exited handler.
\* wrote: the status the exit handler has saved, once it has.
Child(p, a) ==
  [proj |-> p, app |-> a, timer |-> "armed", tst |-> EmptyMap,
   exit |-> "none", est |-> EmptyMap, wrote |-> "none"]

\* this.processes.get(alias).set(app, proc), creating the inner Map if needed.
SetProcess(procs, p, a, pid) ==
  Put(procs, p, Put(IF Has(procs, p) THEN procs[p] ELSE EmptyMap, a, pid))

\* this.processes.get(alias)?.delete(app)
DeleteProcess(procs, p, a) ==
  IF Has(procs, p) THEN Put(procs, p, Del(procs[p], a)) ELSE procs

\* The record put in place of the project's records instead of among them.
RecordStartingAlone(projectState, p, a, pid) ==
  [projectState EXCEPT
     !.processes = (a :> ProcessInfo(pid, getPortForApp(a, p), "starting"))]
\* projectState.processes[app.name] = {pid, port, status: 'starting'}
RecordStarting(projectState, p, a, pid) ==
  [projectState EXCEPT
     !.processes = Put(@, a, ProcessInfo(pid, getPortForApp(a, p), "starting"))]

(* ------------------ startApp: the readiness timer ---------------------- *)

HasRecord(state, p, a) ==
  /\ Has(state.activeProjects, p)
  /\ Has(state.activeProjects[p].processes, a)

SetStatus(state, p, a, status) ==
  [state EXCEPT !.activeProjects[p].processes[a].status = status]

\* The promotion to running, when the record exists and the PID is alive.
TimerPromotes(state, c, pid) ==
  HasRecord(state, c.proj, c.app) /\ isProcessRunning(pid)

\* setTimeout(..., 3000) fires: the state is loaded and the record promoted.
TimerFire(pid) ==
  /\ Has(children, pid)
  /\ children[pid].timer = "armed"
  /\ LET c == children[pid]
         state == loadState(file)
     IN children' =
          IF ~HasActiveProjects(state)
            THEN [children EXCEPT ![pid].timer = "raised"]
          ELSE IF TimerPromotes(state, c, pid)
            THEN [children EXCEPT ![pid].timer = "saving",
                                  ![pid].tst = SetStatus(state, c.proj, c.app, "running")]
          ELSE [children EXCEPT ![pid].timer = "done"]
  /\ UNCHANGED <<file, alive, processes, adoptedPids, op, boot, nextPid, opCount, portVars, logVars, tui>>

TimerWrite(pid) ==
  /\ Has(children, pid)
  /\ children[pid].timer = "saving"
  /\ file' = saveState(children[pid].tst)
  /\ children' = [children EXCEPT ![pid].timer = "done", ![pid].tst = EmptyMap]
  /\ UNCHANGED <<alive, processes, adoptedPids, op, boot, nextPid, opCount, portVars, logVars, tui>>

(* ------------------- startApp: the exit handler ------------------------ *)

ExitStatus(code) == IF code = 0 THEN "stopped" ELSE "error"

\* proc.exited settles with the exit code, and the state is loaded.  With a
\* record: set its status and save.  Without: drop the handle at once.
ExitFire(pid, code) ==
  /\ Has(children, pid)
  /\ children[pid].exit = "exited"
  /\ LET c == children[pid]
         state == loadState(file)
     IN IF ~HasActiveProjects(state)
          THEN /\ children' = [children EXCEPT ![pid].exit = "raised"]
               /\ UNCHANGED processes
        ELSE IF HasRecord(state, c.proj, c.app)
          THEN /\ children' =
                    [children EXCEPT
                       ![pid].exit = "saving",
                       ![pid].est = SetStatus(state, c.proj, c.app, ExitStatus(code))]
               /\ UNCHANGED processes
        ELSE /\ children' = [children EXCEPT ![pid].exit = "done"]
             /\ processes' = DeleteProcess(processes, c.proj, c.app)
  /\ UNCHANGED <<file, alive, adoptedPids, op, boot, nextPid, opCount, portVars, logVars, tui>>

ExitWrite(pid) ==
  /\ Has(children, pid)
  /\ children[pid].exit = "saving"
  /\ file' = saveState(children[pid].est)
  /\ LET c == children[pid]
     IN children' =
          [children EXCEPT ![pid].exit = "saved", ![pid].est = EmptyMap,
                           ![pid].wrote = c.est.activeProjects[c.proj].processes[c.app].status]
  /\ UNCHANGED <<alive, processes, adoptedPids, op, boot, nextPid, opCount, portVars, logVars, tui>>

ExitDelete(pid) ==
  /\ Has(children, pid)
  /\ children[pid].exit = "saved"
  /\ processes' = DeleteProcess(processes, children[pid].proj, children[pid].app)
  /\ children' = [children EXCEPT ![pid].exit = "done"]
  /\ UNCHANGED <<file, alive, adoptedPids, op, boot, nextPid, opCount, portVars, logVars, tui>>

(* ----------------------- operations: common parts ---------------------- *)

\* The UI issues operations once TUIApp.start has run; one runs at a time here.
\* By then adoptRunningProcesses has read the activeProjects of the state
\* file, and every save keeps the field.
CanCall ==
  /\ op.pc = "idle"
  /\ boot.pc = "ready"
  /\ opCount < MaxOps

\* new Date().toISOString(): the operations count time.
Now == opCount + 1

\* The config the UI passes: the dopplerConfig of the state it last loaded.
UiConfig == loadState(file).dopplerConfig

\* tracked0: the PIDs tracked for the project (restartApp: the app) when
\* stopProject (restartApp) was called; signalled: the PIDs it has called
\* killProcessTree on; kill: per PID, where that call is.
NewOp(kind, pc, p, a, cfg, tracked) ==
  [IdleOp EXCEPT !.kind = kind, !.pc = pc, !.proj = p, !.app = a, !.cfg = cfg,
                 !.tracked0 = tracked]

(* ----------------------------- startProject ---------------------------- *)

\* Both callers start only a project that is not running (app.ts
\* toggleSelectedProject, startAllProjects).  ensurePortsAvailable and
\* resetNxDaemon are awaited first.
StartProject(p, cfg) ==
  /\ CanCall
  /\ ~isProjectRunning(p)
  /\ nextPid + NumApps - 1 <= MaxPid
  /\ op' = NewOp("startProject", "ports", p, 0, cfg, TrackedPids(p))
  /\ opCount' = opCount + 1
  /\ UNCHANGED <<file, alive, processes, adoptedPids, children, boot, nextPid, portVars, logVars, tui>>

\* loadState, then the loop over APPS: startApp has no await of its own, so
\* every app is spawned, tracked and given its timer and exit handler in one
\* piece, and then state.activeProjects[alias] is assigned and saveState is
\* called.
StartLoad ==
  /\ op.pc = "ports"
  /\ HasActiveProjects(loadState(file))
  /\ LET p == op.proj
         state == loadState(file)
         pidOf(a) == nextPid + a - 1
         pids == {pidOf(a) : a \in Apps}
         appOf(pid) == pid - nextPid + 1
         projectState ==
           ProjectState(op.cfg, Now,
             [a \in Apps |-> ProcessInfo(pidOf(a), getPortForApp(a, p), "starting")])
     IN /\ processes' =
             Put(processes, p,
                 [a \in Apps |-> pidOf(a)] @@ (IF Has(processes, p) THEN processes[p] ELSE EmptyMap))
        /\ children' = [pid \in pids |-> Child(p, appOf(pid))] @@ children
        /\ alive' = alive \cup pids
        /\ nextPid' = nextPid + NumApps
        /\ op' = [op EXCEPT !.pc = "saving",
                            !.st = [state EXCEPT !.activeProjects = Put(@, p, projectState)]]
        /\ logBuffers' = clearLogBuffer(logBuffers, p, Apps)
        /\ logFiles' = clearLogBuffer(logFiles, p, Apps)
  /\ UNCHANGED <<file, adoptedPids, boot, opCount, portVars, logWrites, lastLog,
                 onLogUpdate, tui>>

StartWrite ==
  /\ op.pc = "saving"
  /\ file' = saveState(op.st)
  /\ op' = IdleOp
  /\ UNCHANGED <<alive, processes, adoptedPids, children, boot, nextPid, opCount, portVars, logVars, tui>>

(* ------------------------------ stopProject ---------------------------- *)

\* The UI stops only a running project (app.ts toggleSelectedProject);
\* stopAllProjects and restartProject call stopProject themselves.
StopProject(p) ==
  /\ CanCall
  /\ isProjectRunning(p)
  /\ op' = NewOp("stopProject", "stop_load", p, 0, "dev", TrackedPids(p))
  /\ opCount' = opCount + 1
  /\ UNCHANGED <<file, alive, processes, adoptedPids, children, boot, nextPid, portVars, logVars, tui>>

\* projectState.processes[appName].status = 'stopped', for the apps killed.
MarkStopped(state, p, apps) ==
  IF Has(state.activeProjects, p)
    THEN [state EXCEPT !.activeProjects[p].processes =
            [a \in DOMAIN @ |-> IF a \in apps THEN [@[a] EXCEPT !.status = "stopped"] ELSE @[a]]]
    ELSE state

\* delete state.activeProjects[alias]
DeleteProject(state, p) == [state EXCEPT !.activeProjects = Del(@, p)]

\* The adopted half of stopProject, entered with o after the spawned half:
\* kill the adopted PIDs and wait, or with none go on to the save.
StopAdoptedPart(o) ==
  LET p == o.proj
      adopted == IF Has(adoptedPids, p) THEN adoptedPids[p] ELSE EmptyMap
  IN IF DOMAIN adopted # {}
       THEN /\ op' = [o EXCEPT !.pc = "stop_killingAdopted", !.targets = adopted,
                               !.signalled = @ \cup Values(adopted)]
            /\ UNCHANGED adoptedPids
       ELSE /\ op' = [o EXCEPT !.pc = "stop_saving", !.targets = EmptyMap,
                               !.st = DeleteProject(o.st, p)]
            /\ adoptedPids' = Del(adoptedPids, p)

\* loadState, then: kill every spawned process of the project and wait.
StopLoad ==
  /\ op.pc = "stop_load"
  /\ LET p == op.proj
         state == loadState(file)
         spawned == IF Has(processes, p) THEN processes[p] ELSE EmptyMap
     IN IF DOMAIN spawned # {}
          THEN /\ op' = [op EXCEPT !.pc = "stop_killing", !.targets = spawned, !.st = state,
                                   !.signalled = @ \cup Values(spawned)]
               /\ UNCHANGED <<processes, adoptedPids>>
          ELSE /\ processes' = Del(processes, p)
               /\ StopAdoptedPart([op EXCEPT !.st = state])
  /\ UNCHANGED <<file, alive, children, boot, nextPid, opCount, portVars, logVars, tui>>

\* Every killProcessTree of the operation has resolved.  Where the steps of
\* a call are not followed (op.kill has no entry for the PID), it resolves
\* once its poll finds the PID gone (SIGTERM, and SIGKILL after the timeout).
AllDead(targets) ==
  \A pid \in Values(targets) :
    IF Has(op.kill, pid) THEN op.kill[pid].pc = "resolved" ELSE ~isProcessRunning(pid)

StopKilled ==
  /\ op.pc = "stop_killing"
  /\ AllDead(op.targets)
  /\ processes' = Del(processes, op.proj)
  /\ StopAdoptedPart([op EXCEPT !.st = MarkStopped(op.st, op.proj, DOMAIN op.targets)])
  /\ UNCHANGED <<file, alive, children, boot, nextPid, opCount, portVars, logVars, tui>>

StopAdoptedKilled ==
  /\ op.pc = "stop_killingAdopted"
  /\ AllDead(op.targets)
  /\ adoptedPids' = Del(adoptedPids, op.proj)
  /\ op' = [op EXCEPT !.pc = "stop_saving", !.targets = EmptyMap,
                      !.st = DeleteProject(MarkStopped(op.st, op.proj, DOMAIN op.targets),
                                           op.proj)]
  /\ UNCHANGED <<file, alive, processes, children, boot, nextPid, opCount, portVars, logVars, tui>>

\* What the caller of stopProject does when it returns: stopProject's own
\* caller is done, restartProject goes on to startProject, stopAllProjects to
\* the next alias.
AfterStop(o) ==
  IF o.kind = "restartProject"
    THEN {[o EXCEPT !.pc = "ports", !.st = EmptyMap]}
  ELSE IF o.kind = "stopAllProjects" /\ o.queue # {}
    THEN {[o EXCEPT !.pc = "stop_load", !.proj = q, !.queue = @ \ {q}, !.st = EmptyMap,
                    !.tracked0 = TrackedPids(q), !.signalled = {}] : q \in o.queue}
  ELSE {IdleOp}

StopWrite ==
  /\ op.pc = "stop_saving"
  /\ file' = saveState(op.st)
  /\ op' \in AfterStop(op)
  /\ UNCHANGED <<alive, processes, adoptedPids, children, boot, nextPid, opCount, portVars, logVars, tui>>

(* ---------------------------- stopAllProjects -------------------------- *)

StopAllProjects ==
  /\ CanCall
  /\ op' = NewOp("stopAllProjects", "sa_load", 0, 0, "dev", {})
  /\ opCount' = opCount + 1
  /\ UNCHANGED <<file, alive, processes, adoptedPids, children, boot, nextPid, portVars, logVars, tui>>

\* loadState, Object.keys(state.activeProjects), then stopProject for each key
\* in turn.  The keys come in insertion order, which a function does not
\* keep: any order.
StopAllLoad ==
  /\ op.pc = "sa_load"
  /\ LET aliases == DOMAIN loadState(file).activeProjects
     IN op' \in IF aliases = {}
                  THEN {IdleOp}
                  ELSE {[op EXCEPT !.pc = "stop_load", !.proj = q, !.queue = aliases \ {q},
                                   !.tracked0 = TrackedPids(q)] : q \in aliases}
  /\ UNCHANGED <<file, alive, processes, adoptedPids, children, boot, nextPid, opCount, portVars, logVars, tui>>

(* ---------------------------- restartProject --------------------------- *)

\* The UI restarts only a running project (app.ts restartSelectedProject).
RestartProject(p, cfg) ==
  /\ CanCall
  /\ isProjectRunning(p)
  /\ nextPid + NumApps - 1 <= MaxPid
  /\ op' = NewOp("restartProject", "stop_load", p, 0, cfg, TrackedPids(p))
  /\ opCount' = opCount + 1
  /\ UNCHANGED <<file, alive, processes, adoptedPids, children, boot, nextPid, portVars, logVars, tui>>

(* ------------------------------ restartApp ----------------------------- *)

\* The adopted half of restartApp's stop: kill the adopted PID of the app and
\* wait, or with none clear the log buffer and load the state.
RestartAdoptedPart(o) ==
  LET p == o.proj
      a == o.app
  IN IF Has(adoptedPids, p) /\ Has(adoptedPids[p], a)
       THEN op' = [o EXCEPT !.pc = "ra_killingAdopted",
                            !.targets = (a :> adoptedPids[p][a]),
                            !.signalled = @ \cup {adoptedPids[p][a]}]
       ELSE op' = [o EXCEPT !.pc = "ra_load", !.targets = EmptyMap]

\* restartApp of a configured app: the stop of the app's spawned process, or
\* with none what follows it.
restartApp(a, p, cfg) ==
  /\ CanCall
  /\ nextPid <= MaxPid
  /\ opCount' = opCount + 1
  /\ LET o == NewOp("restartApp", "ra_call", p, a, cfg, TrackedAppPids(p, a))
     IN IF Has(processes, p) /\ Has(processes[p], a)
          THEN op' = [o EXCEPT !.pc = "ra_killing", !.targets = (a :> processes[p][a]),
                               !.signalled = {processes[p][a]}]
          ELSE RestartAdoptedPart(o)
  /\ UNCHANGED <<file, alive, processes, adoptedPids, children, boot, nextPid, portVars, logVars, tui>>

\* The UI restarts an app of a project that has a runtime in the state it
\* last loaded (app.ts restartSelectedApp).
RestartApp(a, p, cfg) ==
  /\ Has(loadState(file).activeProjects, p)
  /\ restartApp(a, p, cfg)

RestartKilled ==
  /\ op.pc = "ra_killing"
  /\ AllDead(op.targets)
  /\ processes' = DeleteProcess(processes, op.proj, op.app)
  /\ RestartAdoptedPart(op)
  /\ UNCHANGED <<file, alive, adoptedPids, children, boot, nextPid, opCount, portVars, logVars, tui>>

RestartAdoptedKilled ==
  /\ op.pc = "ra_killingAdopted"
  /\ AllDead(op.targets)
  /\ adoptedPids' = DeleteProcess(adoptedPids, op.proj, op.app)
  /\ op' = [op EXCEPT !.pc = "ra_load", !.targets = EmptyMap]
  /\ UNCHANGED <<file, alive, processes, children, boot, nextPid, opCount, portVars, logVars, tui>>

\* loadState; the project's runtime as loaded, or a new one; startApp; and
\* saveState is called.
RestartLoad ==
  /\ op.pc = "ra_load"
  /\ LET state == loadState(file)
         p == op.proj
         a == op.app
         projectState == IF Has(state.activeProjects, p)
                           THEN state.activeProjects[p]
                           ELSE ProjectState(op.cfg, Now, EmptyMap)
     IN /\ processes' = SetProcess(processes, p, a, nextPid)
        /\ children' = Put(children, nextPid, Child(p, a))
        /\ alive' = alive \cup {nextPid}
        /\ nextPid' = nextPid + 1
        /\ op' = [op EXCEPT
                    !.pc = "ra_saving",
                    !.st = [state EXCEPT !.activeProjects =
                              Put(@, p, RecordStarting(projectState, p, a, nextPid))]]
        /\ logBuffers' = clearLogBuffer(logBuffers, p, {a})
        /\ logFiles' = clearLogBuffer(logFiles, p, {a})
  /\ UNCHANGED <<file, adoptedPids, boot, opCount, portVars, logWrites, lastLog,
                 onLogUpdate, tui>>

RestartWrite ==
  /\ op.pc = "ra_saving"
  /\ file' = saveState(op.st)
  /\ op' = IdleOp
  /\ UNCHANGED <<alive, processes, adoptedPids, children, boot, nextPid, opCount, portVars, logVars, tui>>

(* ------------------- TUIApp.start: reconcile and adopt ----------------- *)

\* The loop over state.processes: a record that is not stopped and whose PID
\* is gone becomes stopped.
DemoteDead(state) ==
  [state EXCEPT !.processes =
     [a \in DOMAIN @ |->
        IF @[a].status # "stopped" /\ ~isProcessRunning(@[a].pid)
          THEN [@[a] EXCEPT !.status = "stopped"]
          ELSE @[a]]]

\* If all processes stopped, clear active project.
ClearIfAllStopped(state) ==
  IF /\ \A a \in DOMAIN state.processes : state.processes[a].status = "stopped"
     /\ state.activeProject # Null
    THEN [state EXCEPT !.activeProject = Null, !.startedAt = Null,
                       !.processes = EmptyMap]
    ELSE state

verifyRunningProcesses(state) == ClearIfAllStopped(DemoteDead(state))

\* loadState and the checks.  The state is saved only if something changed;
\* it is returned either way.  dead: the PIDs of the previous session that
\* were gone when the checks ran.
Verify ==
  /\ boot.pc = "new"
  /\ LET state == loadState(file)
         verified == verifyRunningProcesses(state)
     IN boot' = [pc |-> IF verified # state THEN "v_saving" ELSE "verified",
                 st |-> verified, dead |-> PrevPids \ alive]
  /\ UNCHANGED <<file, alive, processes, adoptedPids, children, op, nextPid, opCount, portVars, logVars, tui>>

VerifyWrite ==
  /\ boot.pc = "v_saving"
  /\ file' = saveState(boot.st)
  /\ boot' = [boot EXCEPT !.pc = "verified"]
  /\ UNCHANGED <<alive, processes, adoptedPids, children, op, nextPid, opCount, portVars, logVars, tui>>

\* Every record with a live PID, whatever its status.
AdoptableAlive(state, p) ==
  {a \in DOMAIN state.activeProjects[p].processes :
     isProcessRunning(state.activeProjects[p].processes[a].pid)}
\* The records adoptRunningProcesses tracks: status running, PID alive.
Adoptable(state, p) ==
  {a \in DOMAIN state.activeProjects[p].processes :
     /\ state.activeProjects[p].processes[a].status = "running"
     /\ isProcessRunning(state.activeProjects[p].processes[a].pid)}

AdoptedFrom(state) ==
  [p \in {q \in DOMAIN state.activeProjects : Adoptable(state, q) # {}} |->
     [a \in Adoptable(state, p) |-> state.activeProjects[p].processes[a].pid]]

\* The buffers after loadLogsFromFile of every adopted app.
AdoptedLogs(state) ==
  [key \in {k \in LogKeys : /\ Has(AdoptedFrom(state), k[1])
                             /\ Has(AdoptedFrom(state)[k[1]], k[2])
                             /\ Has(logFiles, k)} |->
     RecentLines(logFiles[key])] @@ logBuffers

\* projects.findIndex(p => activeAliases.includes(p.alias)), if any.
FirstActive(appState, selected) ==
  IF DOMAIN appState.activeProjects # {}
    THEN (CHOOSE p \in DOMAIN appState.activeProjects :
            \A q \in DOMAIN appState.activeProjects : p <= q) - 1
    ELSE selected

\* adoptRunningProcesses, and what TUIApp.start does after it: the selected
\* project, the log update handler.  Object.entries(state.activeProjects)
\* throws without the field, and start() with it: the tool exits.
Adopt ==
  /\ boot.pc = "verified"
  /\ LET state == loadState(file)
     IN IF HasActiveProjects(state) /\ HasActiveProjects(boot.st)
          THEN /\ adoptedPids' = AdoptedFrom(state) @@ adoptedPids
               /\ logBuffers' = AdoptedLogs(state)
               /\ tui' = [tui EXCEPT !.selectedProjectIndex = FirstActive(boot.st, @)]
               /\ onLogUpdate' = "set"
               /\ boot' = [boot EXCEPT !.pc = "ready", !.st = EmptyMap]
          ELSE /\ boot' = [boot EXCEPT !.pc = "crashed", !.st = EmptyMap]
               /\ UNCHANGED <<adoptedPids, logBuffers, tui, onLogUpdate>>
  /\ UNCHANGED <<file, alive, processes, children, op, nextPid, opCount, portVars,
                 logFiles, logWrites, lastLog>>

(* ---------------------------- port reconciler ------------------------ *)

maxRetries == 5
maxAttempts == 3

\* The ports the model hands to ensurePortsAvailable are those of the first
\* project's first NumPorts apps; a port is named by the index of its app.
PortIds == 1..NumPorts
PortNumber(i) == getPortForApp(i, 1)

\* What holds a port: nothing; a process lsof lists to this user; a process
\* lsof does not list (another user's).
Holders == {"free", "visible", "hidden"}

\* The ports argument: a non-empty list of distinct ports.
PortLists ==
  {l \in UNION {[1..n -> PortIds] : n \in 1..NumPorts} :
     \A j, k \in 1..Len(l) : j # k => l[j] # l[k]}

Range(l) == {l[k] : k \in 1..Len(l)}

\* getPidsOnPort: the union of the two lsof queries.
getPidsOnPort(i) == IF holder[i] = "visible" THEN {i} ELSE {}
isPortInUse(i) == getPidsOnPort(i) # {}

\* A probe that asks lsof again instead of binding.
isPortFreeByLsof(i) == ~isPortInUse(i)

\* The bind probe: Bun.serve on the port succeeds, and the server is stopped
\* at once; a failed bind is caught.
isPortActuallyFree(i) == holder[i] = "free"

\* What killing the listed PIDs, or fuser -k, can leave of a port's holder:
\* a listed holder dies, or survives (the signal is refused, or the port has
\* a new holder by then).
AfterKill(h) == IF h = "visible" THEN {"free", "visible"} ELSE {h}

\* ensurePortsAvailable(ports) is called.
EnsureCall(ports) ==
  [pc |-> "killing", ports |-> ports, retry |-> 0, passed |-> {},
   result |-> "none", disturbed |-> FALSE]

\* A round starts a killProcessesOnPort for every port, all running at once.
RoundKills(ports) ==
  [i \in PortIds |->
     IF i \in Range(ports) THEN [pc |-> "lsof", attempt |-> 0]
                           ELSE [pc |-> "idle", attempt |-> 0]]

\* killProcessesOnPort, one attempt: list the PIDs; none, return.
KillList(i) ==
  /\ ens.pc = "killing"
  /\ kp[i].pc = "lsof"
  /\ kp' = [kp EXCEPT ![i].pc = IF getPidsOnPort(i) = {} THEN "done" ELSE "kill"]
  /\ UNCHANGED <<ens, holder, bind, occupied, supervisorVars, logVars, tui>>

\* Kill all found processes, then wait 300 ms.
KillFound(i) ==
  /\ ens.pc = "killing"
  /\ kp[i].pc = "kill"
  /\ holder' \in {[holder EXCEPT ![i] = h] : h \in AfterKill(holder[i])}
  /\ kp' = [kp EXCEPT ![i].pc = "verify"]
  /\ UNCHANGED <<ens, bind, occupied, supervisorVars, logVars, tui>>

\* Check if the port is now free: return, or the next attempt; after the last
\* attempt, fuser.
KillVerify(i) ==
  /\ ens.pc = "killing"
  /\ kp[i].pc = "verify"
  /\ kp' = [kp EXCEPT ![i] =
              IF ~isPortInUse(i) THEN [pc |-> "done", attempt |-> @.attempt]
              ELSE IF @.attempt + 1 < maxAttempts
                THEN [pc |-> "lsof", attempt |-> @.attempt + 1]
              ELSE [pc |-> "fuser", attempt |-> @.attempt + 1]]
  /\ UNCHANGED <<ens, holder, bind, occupied, supervisorVars, logVars, tui>>

\* Last resort: fuser -k, whose failure is ignored.
KillFuser(i) ==
  /\ ens.pc = "killing"
  /\ kp[i].pc = "fuser"
  /\ holder' \in {[holder EXCEPT ![i] = h] : h \in AfterKill(holder[i])}
  /\ kp' = [kp EXCEPT ![i].pc = "done"]
  /\ UNCHANGED <<ens, bind, occupied, supervisorVars, logVars, tui>>

\* Promise.all over the ports has settled: the 500 ms wait starts.
EnsureSettle ==
  /\ ens.pc = "killing"
  /\ \A i \in Range(ens.ports) : kp[i].pc = "done"
  /\ ens' = [ens EXCEPT !.pc = "settling"]
  /\ UNCHANGED <<kp, holder, bind, occupied, supervisorVars, logVars, tui>>

\* The ports that pass the probe: those before the first that does not (the
\* loop breaks there).  The probes settle without a real wait, so a round's
\* probes and the return are one piece.
Passed(ports) ==
  {ports[k] : k \in {j \in 1..Len(ports) : \A m \in 1..j : isPortActuallyFree(ports[m])}}

EnsureProbe ==
  /\ ens.pc = "settling"
  /\ LET passed == Passed(ens.ports)
     IN ens' = IF passed = Range(ens.ports)
                 THEN [ens EXCEPT !.pc = "returned", !.passed = passed,
                                  !.result = "allFree"]
                 ELSE [ens EXCEPT !.pc = "waiting", !.passed = passed]
  /\ UNCHANGED <<kp, holder, bind, occupied, supervisorVars, logVars, tui>>

\* A loop that goes round once more: retry <= maxRetries.
EnsureRetryOnceMore ==
  /\ ens.pc = "waiting"
  /\ IF ens.retry + 1 <= maxRetries
       THEN /\ ens' = [ens EXCEPT !.pc = "killing", !.retry = @ + 1, !.passed = {}]
            /\ kp' = RoundKills(ens.ports)
       ELSE /\ ens' = [ens EXCEPT !.pc = "returned", !.retry = @ + 1,
                                  !.result = "exhausted"]
            /\ UNCHANGED kp
  /\ UNCHANGED <<holder, bind, occupied, supervisorVars, logVars, tui>>

\* After the 1000 ms wait: the next round, or with the rounds used up the
\* function returns anyway.
EnsureRetry ==
  /\ ens.pc = "waiting"
  /\ IF ens.retry + 1 < maxRetries
       THEN /\ ens' = [ens EXCEPT !.pc = "killing", !.retry = @ + 1, !.passed = {}]
            /\ kp' = RoundKills(ens.ports)
       ELSE /\ ens' = [ens EXCEPT !.pc = "returned", !.retry = @ + 1,
                                  !.result = "exhausted"]
            /\ UNCHANGED kp
  /\ UNCHANGED <<holder, bind, occupied, supervisorVars, logVars, tui>>

\* The caller binds the port itself once the call has returned.
TestBind ==
  /\ ens.pc = "returned"
  /\ bind = "none"
  /\ bind' = IF \A i \in Range(ens.ports) : holder[i] = "free" THEN "ok" ELSE "failed"
  /\ UNCHANGED <<ens, kp, holder, occupied, supervisorVars, logVars, tui>>

\* Programs outside the tool take a free port, and let go of one.  disturbed:
\* a port was taken between the call's return and the caller's bind.
Occupy(i, h) ==
  /\ holder[i] = "free"
  /\ occupied < MaxOccupy
  /\ holder' = [holder EXCEPT ![i] = h]
  /\ occupied' = occupied + 1
  /\ ens' = IF ens.pc = "returned" /\ bind = "none"
              THEN [ens EXCEPT !.disturbed = TRUE]
              ELSE ens
  /\ UNCHANGED <<kp, bind, supervisorVars, logVars, tui>>

Release(i) ==
  /\ holder[i] # "free"
  /\ holder' = [holder EXCEPT ![i] = "free"]
  /\ UNCHANGED <<ens, kp, bind, occupied, supervisorVars, logVars, tui>>

(* ----------------------------- specifications -------------------------- *)

HandlerStep ==
  \E pid \in DOMAIN children :
    \/ TimerFire(pid)
    \/ TimerWrite(pid)
    \/ \E code \in ExitCodes : ExitFire(pid, code)
    \/ ExitWrite(pid)
    \/ ExitDelete(pid)

OpStep ==
  \/ StartLoad
  \/ StartWrite
  \/ StopLoad
  \/ StopKilled
  \/ StopAdoptedKilled
  \/ StopWrite
  \/ StopAllLoad
  \/ RestartKilled
  \/ RestartAdoptedKilled
  \/ RestartLoad
  \/ RestartWrite

BootStep ==
  \/ Verify
  \/ VerifyWrite
  \/ Adopt

Call ==
  \/ \E p \in Projects : StartProject(p, UiConfig)
  \/ \E p \in Projects : StopProject(p)
  \/ \E p \in Projects : RestartProject(p, UiConfig)
  \/ \E p \in DOMAIN loadState(file).activeProjects, a \in Apps :
       RestartApp(a, p, loadState(file).activeProjects[p].dopplerConfig)
  \/ StopAllProjects

OsStep == \E pid \in alive : ProcessExit(pid)

\* The supervisor: the tool from its start, the user's operations, the
\* children and their handlers.
Next ==
  \/ OsStep
  \/ HandlerStep
  \/ OpStep
  \/ Verify
  \/ Adopt
  \/ Call

Spec == Init /\ [][Next]_vars

\* The start of the tool on any state file a previous session, or the first
\* version of the tool, can have left.
InitStartup ==
  /\ file \in {NoFile, CorruptFile}
               \cup {MultiFile(ap) : ap \in PrevActiveProjects}
               \cup {LegacyFile(pid, status) : pid \in PrevPids, status \in Statuses}
  /\ alive \in SUBSET PrevPids
  /\ opCount = 0
  /\ SupervisorNew
  /\ PortsAtRest
  /\ logBuffers = EmptyMap
  /\ logFiles \in PrevLogFiles
  /\ logWrites = <<>>
  /\ lastLog = NoLog
  /\ onLogUpdate = "unset"
  /\ tui = TuiNew

\* The start, and the stop of a project by the user once the tool is up.
NextStartup ==
  \/ OsStep
  \/ BootStep
  \/ \E p \in Projects : StopProject(p)
  \/ StopLoad
  \/ StopAdoptedKilled
  \/ StopWrite

SpecStartup == InitStartup /\ [][NextStartup]_vars

\* One call of ensurePortsAvailable on any list of ports, held by anything,
\* and the caller's bind after it.
InitPorts ==
  /\ file = EmptyFile
  /\ alive = {}
  /\ opCount = 0
  /\ SupervisorNew
  /\ holder \in [PortIds -> Holders]
  /\ \E ports \in PortLists :
       /\ ens = EnsureCall(ports)
       /\ kp = RoundKills(ports)
  /\ bind = "none"
  /\ occupied = 0
  /\ LogsNew
  /\ tui = TuiNew

ReconcilerStep ==
  \/ \E i \in PortIds : KillList(i) \/ KillFound(i) \/ KillVerify(i) \/ KillFuser(i)
  \/ EnsureSettle
  \/ EnsureProbe
  \/ EnsureRetry

NextPorts ==
  \/ ReconcilerStep
  \/ TestBind
  \/ \E i \in PortIds, h \in Holders \ {"free"} : Occupy(i, h)
  \/ \E i \in PortIds : Release(i)

\* Every wait of the reconciler is on a timer or on a command that ends.
SpecPorts == InitPorts /\ [][NextPorts]_vars /\ WF_vars(ReconcilerStep)

(* ------------------------- what the state file says -------------------- *)

\* The activeProjects of the state file as loadState returns it.
ActiveProjectsOf(f) ==
  IF HasActiveProjects(loadState(f)) THEN loadState(f).activeProjects ELSE EmptyMap

PersistedProjects == ActiveProjectsOf(file)

\* The persisted records, as <<project, app>> pairs, and one of them.
PersistedApps ==
  {pa \in Projects \X Apps :
     /\ Has(PersistedProjects, pa[1])
     /\ Has(PersistedProjects[pa[1]].processes, pa[2])}

Record(pa) == PersistedProjects[pa[1]].processes[pa[2]]

\* A project's entry of a state file, as a set: empty without an entry.
EntryOf(f, p) == {ActiveProjectsOf(f)[q] : q \in DOMAIN ActiveProjectsOf(f) \cap {p}}

\* No operation is in progress, and every readiness timer and every exit
\* handler that is due has run to its end.
Quiescent ==
  /\ op.pc = "idle"
  /\ \A pid \in DOMAIN children :
       /\ children[pid].timer \in {"done", "raised"}
       /\ children[pid].exit \in {"none", "done", "raised"}

(* ------------------------------- supervisor ---------------------------- *)

\* C1: whenever no operation is in progress, every persisted status is one of
\* starting, running, stopped, error, and an app whose persisted status is
\* stopped has no live PID tracked for it, spawned or adopted.
C1_StoppedMeansUntracked ==
  op.pc = "idle" =>
    \A pa \in PersistedApps :
      /\ Record(pa).status \in Statuses
      /\ Record(pa).status = "stopped" =>
           \A pid \in TrackedAppPids(pa[1], pa[2]) : ~isProcessRunning(pid)

\* C4: no record stays in starting for ever.  Once every operation, timer and
\* exit handler has finished, only the exit of a live child of the app can
\* still change the record: a record in starting then has such a child.
C4_NoStuckStarting ==
  Quiescent =>
    \A pa \in PersistedApps :
      Record(pa).status = "starting" =>
        \E pid \in DOMAIN children :
          /\ children[pid].proj = pa[1]
          /\ children[pid].app = pa[2]
          /\ isProcessRunning(pid)

\* C5: after all handlers have finished, the record of an exited app whose
\* exit handler saved its status still carries that status.
C5_ExitStatusKept ==
  Quiescent =>
    \A pid \in DOMAIN children :
      LET pa == <<children[pid].proj, children[pid].app>>
      IN (/\ children[pid].wrote # "none"
          /\ pa \in PersistedApps
          /\ Record(pa).pid = pid)
           => Record(pa).status = children[pid].wrote

\* The step on which an operation of the given kind returns to its caller.
Returns(kind) == op.kind = kind /\ op.pc # "idle" /\ op'.pc = "idle"

\* C6: when stopProject(alias) returns, every PID that was tracked for alias
\* when it was called has been given to killProcessTree (or is gone), neither
\* map holds an entry for alias, and the state it wrote has no ProjectRuntime
\* for alias.
C6_StopProjectStopsAll ==
  [][Returns("stopProject") =>
       /\ \A pid \in op.tracked0 : pid \in op.signalled \/ ~isProcessRunning(pid)
       /\ ~Has(processes', op.proj)
       /\ ~Has(adoptedPids', op.proj)
       /\ ~Has(ActiveProjectsOf(file'), op.proj)]_vars

\* C7: a stopProject(alias) called with nothing tracked for alias, when it
\* saves: it has signalled no PID, the state has no entry for alias, and the
\* entry of every other project is what it was before the save.
C7_StopUntrackedIsNoOp ==
  [][(op.pc = "stop_saving" /\ op' # op /\ op.tracked0 = {}) =>
       /\ op.signalled = {}
       /\ ~Has(ActiveProjectsOf(file'), op.proj)
       /\ \A q \in Projects \ {op.proj} : EntryOf(file', q) = EntryOf(file, q)]_vars

\* C8: when stopAllProjects() returns, no tracked PID is alive and isRunning()
\* is false.
C8_StopAllStopsAll ==
  [][Returns("stopAllProjects") =>
       /\ \A pid \in AllTrackedPids' : pid \notin alive'
       /\ ~isRunning']_vars

(* -------------------------------- startup ------------------------------ *)

\* The step on which verifyRunningProcesses returns.
VerifyReturns == boot.pc \in {"new", "v_saving"} /\ boot'.pc = "verified"

\* C2: when verifyRunningProcesses returns, no persisted record of any project
\* has a status other than stopped with a PID that was dead when it checked.
C2_NoDeadMarkedLive ==
  [][VerifyReturns =>
       \A p \in DOMAIN ActiveProjectsOf(file') :
         \A a \in DOMAIN ActiveProjectsOf(file')[p].processes :
           LET info == ActiveProjectsOf(file')[p].processes[a]
           IN info.status # "stopped" => info.pid \notin boot'.dead]_vars

\* C3: when verifyRunningProcesses returns, no project whose apps are all
\* stopped is left in the persisted state, and a project that had an app not
\* stopped with a live PID is still there.
C3_AllStoppedRemoved ==
  [][VerifyReturns =>
       /\ \A p \in DOMAIN ActiveProjectsOf(file') :
            \E a \in DOMAIN ActiveProjectsOf(file')[p].processes :
              ActiveProjectsOf(file')[p].processes[a].status # "stopped"
       /\ \A p \in DOMAIN ActiveProjectsOf(file) :
            (\E a \in DOMAIN ActiveProjectsOf(file)[p].processes :
               /\ ActiveProjectsOf(file)[p].processes[a].status # "stopped"
               /\ isProcessRunning(ActiveProjectsOf(file)[p].processes[a].pid))
              => Has(ActiveProjectsOf(file'), p)]_vars

(* ----------------------------- port reconciler ------------------------- *)

\* The rounds of kill and probe the call has started.
Rounds == IF ens.result = "exhausted" THEN ens.retry ELSE ens.retry + 1

C9_Safety ==
  /\ ens.pc \in {"killing", "settling", "waiting", "returned"}
  /\ Rounds <= maxRetries
  /\ ens.pc = "returned" =>
       \/ ens.result = "allFree" /\ ens.passed = Range(ens.ports)
       \/ ens.result = "exhausted" /\ Rounds = maxRetries

\* C9: ensurePortsAvailable runs at most 5 rounds and does not raise; it
\* returns early only from a round in which every port passed the bind probe,
\* and otherwise after the 5th round; and it always returns.
C9_ReturnsWithinFiveRounds == []C9_Safety /\ <>(ens.pc = "returned")

\* The 5 rounds are used up and the call returns with a port still held.
C9_Witness ==
  /\ ens.pc = "returned"
  /\ ens.result = "exhausted"
  /\ \E i \in Range(ens.ports) : holder[i] # "free"

\* C10, as stated: the caller's bind of p right after ensurePortsAvailable({p})
\* has returned succeeds.
C10_BindSucceeds ==
  (bind # "none" /\ Len(ens.ports) = 1 /\ ~ens.disturbed) => bind = "ok"

\* C10, amended: the caller's bind of p right after ensurePortsAvailable({p})
\* has returned from a round in which p passed the bind probe succeeds.
C10_BindSucceedsAfterProbe ==
  (bind # "none" /\ Len(ens.ports) = 1 /\ ~ens.disturbed /\ ens.result = "allFree")
    => bind = "ok"

\* A port that was held is freed by a later round, the call returns from that
\* round, and the caller's bind succeeds.
C10_Witness ==
  /\ bind = "ok"
  /\ Len(ens.ports) = 1
  /\ ~ens.disturbed
  /\ ens.result = "allFree"
  /\ ens.retry > 0

(* ------------------------------- ports of apps ------------------------- *)

\* All of the configured PROJECTS and APPS, whatever part of them the model runs.
PROJECTS == 1..3
APPS == DOMAIN AppBasePort

\* C11: getPortForApp(app, project) is app.basePort + project.index * 100; two
\* distinct (project, app) pairs of the configuration never resolve to the same
\* port, and no two persisted records of distinct apps carry the same port.
C11_PortsDistinct ==
  /\ \A p \in PROJECTS, a \in APPS :
       getPortForApp(a, p) = AppBasePort[a] + ProjectIndex(p) * 100
  /\ \A p, q \in PROJECTS, a, b \in APPS :
       <<p, a>> # <<q, b>> => getPortForApp(a, p) # getPortForApp(b, q)
  /\ \A pa \in PersistedApps : Record(pa).port = getPortForApp(pa[2], pa[1])
  /\ \A pa, qb \in PersistedApps : pa # qb => Record(pa).port # Record(qb).port

\* Apps of two projects have been started and recorded with their ports.
C11_Witness ==
  \E pa, qb \in PersistedApps :
    /\ pa[1] # qb[1]
    /\ Record(pa).pid \in DOMAIN children
    /\ Record(qb).pid \in DOMAIN children

(* ------------------------------ specification: logs -------------------- *)

\* TUIApp.start has run on a fresh state: the supervisor takes operations and
\* the log update handler is registered.
SupervisorReady ==
  /\ processes = EmptyMap
  /\ adoptedPids = EmptyMap
  /\ children = EmptyMap
  /\ op = IdleOp
  /\ boot = [pc |-> "ready", st |-> EmptyMap, dead |-> {}]
  /\ nextPid = 1

\* The log buffers of a running tool, over any log file a previous session
\* left for the first app: lines arrive from any app, buffers are cleared and
\* loaded, the appends reach the files.
InitLogs ==
  /\ file = EmptyFile
  /\ alive = {}
  /\ opCount = 0
  /\ SupervisorReady
  /\ PortsAtRest
  /\ logBuffers = EmptyMap
  /\ logFiles \in PrevLogFiles
  /\ logWrites = <<>>
  /\ lastLog = NoLog
  /\ onLogUpdate = "set"
  /\ tui = TuiNew

NextLogs ==
  \/ \E p \in Projects, a \in Apps, line \in LogLines : AddLogLine(p, a, line)
  \/ \E p \in Projects, a \in Apps : ClearLogBuffer(p, a)
  \/ \E p \in Projects, a \in Apps : LoadLogsFromFile(p, a)
  \/ \E i \in 1..MaxLogCalls : LogWriteDone(i)

SpecLogs == InitLogs /\ [][NextLogs]_vars

\* C12: after any sequence of addLogLine, loadLogsFromFile and clearLogBuffer
\* calls, no log buffer holds more than MAX_LOG_LINES lines.
C12_BufferWithinCapacity ==
  \A key \in DOMAIN logBuffers : Len(logBuffers[key]) <= MAX_LOG_LINES

\* A line was added to a full buffer, also one loaded from a longer file.
C12_Witness ==
  /\ lastLog.kind = "addLogLine"
  /\ lastLog.returned
  /\ Len(logBuffers[lastLog.key]) = MAX_LOG_LINES
  /\ \E key \in DOMAIN logFiles : Len(logFiles[key]) > MAX_LOG_LINES

\* The step of an addLogLine call.
AddsLine == lastLog'.seq # lastLog.seq /\ lastLog'.kind = "addLogLine"

\* C13: addLogLine of line x on buffer b leaves b followed by x when b holds
\* fewer than MAX_LOG_LINES lines, and b without its first line followed by x
\* when b is full; it returns, and passes to the change callback with project,
\* app and line, didShift true exactly in the second case; the callback is
\* called once.
C13_AddLineIsFifo ==
  [][AddsLine =>
       LET key == lastLog'.key
           x == lastLog'.line
           b == IF Has(logBuffers, key) THEN logBuffers[key] ELSE <<>>
           after == IF Has(logBuffers', key) THEN logBuffers'[key] ELSE <<>>
           didEvict == Len(b) >= MAX_LOG_LINES
       IN /\ ~didEvict => after = Append(b, x)
          /\ didEvict => after = Append(Tail(b), x)
          /\ lastLog'.returned = didEvict
          /\ lastLog'.notified = <<[project |-> key[1], app |-> key[2], line |-> x,
                                    didShift |-> didEvict]>>]_vars

\* A line was added to a full buffer, and it evicted the oldest.
C13_Witness ==
  /\ lastLog.kind = "addLogLine"
  /\ lastLog.returned
  /\ Len(lastLog.notified) = 1
  /\ logBuffers[lastLog.key][MAX_LOG_LINES] = lastLog.line
  /\ logBuffers[lastLog.key][1] # lastLog.line

(* ------------------------------ the log view --------------------------- *)

\* str.replace(/\x1b\[[0-9;]*m/g, '')
stripAnsi(str) == LET Visible(t) == t # ESC IN SelectSeq(str, Visible)

\* The string as it is: upper and lower case are different characters.
sameCase(str) == str
toLowerCase(str) == [i \in DOMAIN str |-> IF str[i] = "A" THEN "a" ELSE str[i]]

\* str.includes(query)
includes(str, query) ==
  \E i \in 0..(Len(str) - Len(query)) : SubSeq(str, i + 1, i + Len(query)) = query

\* lines.map((line, idx) => ... ? idx : -1).filter(idx => idx >= 0), for the
\* test of performSearch: indices from 0, in the order of the lines.
SearchOf(lines, query) ==
  LET Hit(idx) == includes(toLowerCase(stripAnsi(lines[idx + 1])), query)
  IN SelectSeq([i \in 1..Len(lines) |-> i - 1], Hit)

\* The buffer of the (project, app) the log view shows.
ViewedBuffer(t) == getLogBuffer(t.selectedLogProject + 1, t.selectedLogApp + 1)

scrollToSearchMatch(t) ==
  IF Len(t.searchMatches) = 0 THEN t
  ELSE [t EXCEPT
          !.logScrollOffset =
             Max(0, t.searchMatches[t.searchMatchIndex + 1] - (LogViewHeight \div 2)),
          !.logFollowMode = FALSE]

performSearch(t) ==
  LET query == toLowerCase(t.searchQuery)
  IN IF query = <<>>
       THEN [t EXCEPT !.searchMatches = <<>>]
       ELSE scrollToSearchMatch(
              [t EXCEPT !.searchMatches = SearchOf(ViewedBuffer(t), query),
                        !.searchMatchIndex = 0])

Escape == "\\x1b"
Enter == "\\r"
Backspace == "\\x7f"
SearchKeys == {Escape, Enter, Backspace} \cup Keys
\* The keys of the log view and of the dashboard that the model presses: not
\* those that only scroll or move the selection, nor those of the supervisor.
LogViewKeys == {Escape, "[", "]", "/", "n", "N"}
DashboardKeys == {"l"}

handleSearchKeypress(t, key) ==
  CASE key = Escape -> [t EXCEPT !.searchMode = FALSE, !.searchQuery = <<>>]
    [] key = Enter -> performSearch([t EXCEPT !.searchMode = FALSE])
    [] key = Backspace ->
         performSearch([t EXCEPT !.searchQuery = SubSeq(@, 1, Len(@) - 1)])
    [] OTHER -> performSearch([t EXCEPT !.searchQuery = Append(@, key)])

\* n steps past the last match instead of returning to the first.
handleLogKeypressNoWrap(t, key) ==
  LET count == Len(t.searchMatches)
  IN CASE key = Escape -> [t EXCEPT !.viewMode = "dashboard"]
       [] key = "[" -> [t EXCEPT !.selectedLogProject = Max(0, @ - 1),
                                 !.logScrollOffset = 0, !.logFollowMode = TRUE]
       [] key = "]" -> [t EXCEPT !.selectedLogProject = Min(NumProjects - 1, @ + 1),
                                 !.logScrollOffset = 0, !.logFollowMode = TRUE]
       [] key = "/" -> [t EXCEPT !.searchMode = TRUE, !.searchQuery = <<>>,
                                 !.searchMatches = <<>>, !.searchMatchIndex = 0]
       [] key = "n" -> IF count > 0 /\ t.searchMatchIndex + 1 < count
                         THEN scrollToSearchMatch(
                                [t EXCEPT !.searchMatchIndex = @ + 1])
                         ELSE [t EXCEPT !.searchMatchIndex = @ + 1]
       [] key = "N" -> IF count > 0
                         THEN scrollToSearchMatch(
                                [t EXCEPT !.searchMatchIndex = (@ - 1 + count) % count])
                         ELSE t
       [] OTHER -> t
handleLogKeypress(t, key) ==
  LET count == Len(t.searchMatches)
  IN CASE key = Escape -> [t EXCEPT !.viewMode = "dashboard"]
       [] key = "[" -> [t EXCEPT !.selectedLogProject = Max(0, @ - 1),
                                 !.logScrollOffset = 0, !.logFollowMode = TRUE]
       [] key = "]" -> [t EXCEPT !.selectedLogProject = Min(NumProjects - 1, @ + 1),
                                 !.logScrollOffset = 0, !.logFollowMode = TRUE]
       [] key = "/" -> [t EXCEPT !.searchMode = TRUE, !.searchQuery = <<>>,
                                 !.searchMatches = <<>>, !.searchMatchIndex = 0]
       [] key = "n" -> IF count > 0
                         THEN scrollToSearchMatch(
                                [t EXCEPT !.searchMatchIndex = (@ + 1) % count])
                         ELSE t
       [] key = "N" -> IF count > 0
                         THEN scrollToSearchMatch(
                                [t EXCEPT !.searchMatchIndex = (@ - 1 + count) % count])
                         ELSE t
       [] OTHER -> t

handleDashboardKeypress(t, key) ==
  CASE key = "l" -> [t EXCEPT !.viewMode = "logs",
                              !.selectedLogProject = t.selectedProjectIndex,
                              !.logScrollOffset = 0, !.logFollowMode = TRUE]
    [] OTHER -> t

\* handleKeypress: the search prompt takes the key if it is open, else the
\* log view if it is shown, else the dashboard.
SearchKeypress(key) ==
  /\ tui.searchMode
  /\ key \in Keys => Len(tui.searchQuery) < MaxQuery
  /\ tui' = handleSearchKeypress(tui, key)
  /\ UNCHANGED <<supervisorVars, portVars, logVars>>

LogKeypress(key) ==
  /\ ~tui.searchMode
  /\ tui.viewMode = "logs"
  /\ tui' = handleLogKeypress(tui, key)
  /\ UNCHANGED <<supervisorVars, portVars, logVars>>

DashboardKeypress(key) ==
  /\ ~tui.searchMode
  /\ tui.viewMode = "dashboard"
  /\ tui' = handleDashboardKeypress(tui, key)
  /\ UNCHANGED <<supervisorVars, portVars, logVars>>

\* The user at the keyboard of a running tool while the apps print lines.
NextSearch ==
  \/ \E key \in SearchKeys : SearchKeypress(key)
  \/ \E key \in LogViewKeys : LogKeypress(key)
  \/ \E key \in DashboardKeys : DashboardKeypress(key)
  \/ \E p \in Projects, a \in Apps, line \in LogLines : AddLogLine(p, a, line)

InitSearch == InitLogs /\ logFiles = EmptyMap

SpecSearch == InitSearch /\ [][NextSearch]_vars

\* The step of a key that changed the view, and of one given to the search
\* prompt that ran performSearch: any but Escape, which alone closes the
\* prompt and empties a query.
KeyHandled == tui' # tui /\ logBuffers' = logBuffers
Searched ==
  /\ KeyHandled
  /\ tui.searchMode
  /\ ~(~tui'.searchMode /\ tui'.searchQuery = <<>> /\ tui.searchQuery # <<>>)

\* The indices, from 0 and ascending, of the lines that contain the query,
\* case ignored: of the lines as they are, and the lines without their colour
\* sequences.
MatchesInLines(lines, query) ==
  LET Hit(idx) == includes(toLowerCase(lines[idx + 1]), toLowerCase(query))
  IN SelectSeq([i \in 1..Len(lines) |-> i - 1], Hit)

MatchesInVisible(lines, query) ==
  LET Hit(idx) == \E i \in 0..(Len(stripAnsi(lines[idx + 1])) - Len(query)) :
                    \A j \in 1..Len(query) :
                      LET c == stripAnsi(lines[idx + 1])[i + j]
                          d == query[j]
                      IN c = d \/ {c, d} = {"a", "A"}
  IN SelectSeq([i \in 1..Len(lines) |-> i - 1], Hit)

\* C14 as stated: a search with a non-empty query yields exactly the indices of
\* the lines that contain the query as a case-insensitive substring, ascending;
\* an empty query yields no matches.
C14_MatchesContainQuery ==
  [][Searched =>
       tui'.searchMatches =
         IF tui'.searchQuery = <<>> THEN <<>>
         ELSE MatchesInLines(ViewedBuffer(tui), tui'.searchQuery)]_vars

\* C14, amended: the lines are compared without their ANSI colour sequences.
C14_MatchesContainQueryVisible ==
  [][Searched =>
       /\ tui'.searchMatches =
            IF tui'.searchQuery = <<>> THEN <<>>
            ELSE MatchesInVisible(ViewedBuffer(tui), tui'.searchQuery)
       /\ \A i, j \in DOMAIN tui'.searchMatches :
            i < j => tui'.searchMatches[i] < tui'.searchMatches[j]]_vars

\* A search in upper case has found a coloured line and a plain one.
C14_Witness ==
  /\ tui.searchMode
  /\ "A" \in {tui.searchQuery[i] : i \in DOMAIN tui.searchQuery}
  /\ Len(tui.searchMatches) = 2
  /\ \E i \in DOMAIN ViewedBuffer(tui) : ViewedBuffer(tui)[i] = <<"a", ESC, "b">>
  /\ Len(tui.searchQuery) = 2

\* C15: after every change of the search query (a character typed, backspace,
\* Escape, a new search opened) the stored matches are the full result of the
\* new query on the current buffer of the viewed (project, app), and empty
\* when the query is empty.
C15_MatchesFollowQuery ==
  [][(KeyHandled /\ (tui'.searchQuery # tui.searchQuery \/ tui'.searchMode # tui.searchMode)) =>
       tui'.searchMatches =
         IF tui'.searchQuery = <<>> THEN <<>>
         ELSE SearchOf(ViewedBuffer(tui), toLowerCase(tui'.searchQuery))]_vars

(* ------------------------------- adoption ------------------------------ *)

\* The step on which adoptRunningProcesses returns.
Adopts == boot.pc = "verified" /\ boot'.pc = "ready"

\* The last min(n, MAX_LOG_LINES) of the n non-empty lines of a log file, none
\* without the file.
LastNonEmptyLines(key) ==
  LET IsLine(line) == line # <<>>
      lines == IF Has(logFiles, key) THEN SelectSeq(logFiles[key], IsLine) ELSE <<>>
      n == Len(lines)
      k == IF n <= MAX_LOG_LINES THEN n ELSE MAX_LOG_LINES
  IN [i \in 1..k |-> lines[n - k + i]]

\* C16: when a fresh supervisor runs adoptRunningProcesses on a state holding
\* an app with status running whose PID is alive, then afterwards isAppRunning
\* is true for it, its PID is among those stopProject gives to killProcessTree,
\* and its log buffer is the last min(n, capacity) non-empty lines of its log
\* file; and a stopProject that returns has signalled every PID tracked for
\* the project when it was called.
C16_AdoptedRunningKillableLogged ==
  [][/\ Adopts =>
          \A pa \in PersistedApps :
            (Record(pa).status = "running" /\ isProcessRunning(Record(pa).pid)) =>
              /\ isAppRunning(pa[1], pa[2])'
              /\ Record(pa).pid \in TrackedPids(pa[1])'
              /\ getLogBuffer(pa[1], pa[2])' = LastNonEmptyLines(makeLogKey(pa[1], pa[2]))
     /\ Returns("stopProject") =>
          \A pid \in op.tracked0 : pid \in op.signalled]_vars

\* An app adopted with a log file longer than the buffer, and stopped.
C16_Witness ==
  /\ boot.pc = "ready"
  /\ Has(logFiles, makeLogKey(1, 1))
  /\ Len(logFiles[makeLogKey(1, 1)]) > MAX_LOG_LINES
  /\ Len(getLogBuffer(1, 1)) = MAX_LOG_LINES
  /\ logFiles[makeLogKey(1, 1)][1] # logFiles[makeLogKey(1, 1)][MAX_LOG_LINES + 1]
  /\ op.kind = "stopProject" /\ op.pc = "stop_saving" /\ op.proj = 1
  /\ op.signalled # {}

(* --------------------------- status transitions ------------------------ *)

\* The persisted records after a step, and one of them.
PersistedAppsAfter ==
  {pa \in Projects \X Apps :
     /\ Has(ActiveProjectsOf(file'), pa[1])
     /\ Has(ActiveProjectsOf(file')[pa[1]].processes, pa[2])}

RecordAfter(pa) == ActiveProjectsOf(file')[pa[1]].processes[pa[2]]

\* The step is the save of a start or restart of the app.
SavesStartOf(pa) ==
  /\ op.proj = pa[1]
  /\ \/ op.pc = "saving"
     \/ op.pc = "ra_saving" /\ op.app = pa[2]

\* C17: every change of an app's persisted record is an allowed transition:
\* starting to running, starting or running to stopped or error, any status to
\* stopped by a stop of the project, or a new record in starting written by a
\* start or restart of the app; in particular a record in stopped or error
\* does not become running with no new start in between.
C17_AllowedTransitions ==
  [][\A pa \in PersistedApps \cap PersistedAppsAfter :
       LET r == Record(pa)
           s == RecordAfter(pa)
       IN s # r =>
            \/ s.status = "starting" /\ SavesStartOf(pa)
            \/ s.pid = r.pid /\ r.status = "starting" /\ s.status = "running"
            \/ s.pid = r.pid /\ r.status \in {"starting", "running"}
                             /\ s.status \in {"stopped", "error"}
            \/ s.pid = r.pid /\ s.status = "stopped"
                             /\ op.pc = "stop_saving" /\ op.proj = pa[1]]_vars

(* ----------------------------- spawn failure --------------------------- *)

\* Bun.spawn throws for app k of the project (the command, or the project's
\* directory, is not there): the apps before k have been spawned and tracked;
\* startApp, and with it startProject, rejects before saveState.  Nothing
\* catches the rejection: the tool's unhandledRejection handler shuts it down.
StartSpawnFails ==
  /\ op.pc = "ports"
  /\ \E k \in Apps :
       LET p == op.proj
           before == 1..(k - 1)
           pidOf(a) == nextPid + a - 1
           pids == {pidOf(a) : a \in before}
           appOf(pid) == pid - nextPid + 1
       IN /\ processes' =
               Put(processes, p,
                   [a \in before |-> pidOf(a)] @@
                     (IF Has(processes, p) THEN processes[p] ELSE EmptyMap))
          /\ children' = [pid \in pids |-> Child(p, appOf(pid))] @@ children
          /\ alive' = alive \cup pids
          /\ nextPid' = nextPid + (k - 1)
          /\ op' = [op EXCEPT !.pc = "rejected", !.app = k]
  /\ logBuffers' = clearLogBuffer(logBuffers, op.proj, Apps)
  /\ logFiles' = clearLogBuffer(logFiles, op.proj, Apps)
  /\ boot' = [boot EXCEPT !.pc = "crashed"]
  /\ UNCHANGED <<file, adoptedPids, opCount, portVars, logWrites, lastLog,
                 onLogUpdate, tui>>

\* The same in restartApp, after the old process has been killed and the log
\* buffer cleared.
RestartSpawnFails ==
  /\ op.pc = "ra_load"
  /\ op' = [op EXCEPT !.pc = "rejected"]
  /\ logBuffers' = clearLogBuffer(logBuffers, op.proj, {op.app})
  /\ logFiles' = clearLogBuffer(logFiles, op.proj, {op.app})
  /\ boot' = [boot EXCEPT !.pc = "crashed"]
  /\ UNCHANGED <<file, alive, processes, adoptedPids, children, nextPid, opCount,
                 portVars, logWrites, lastLog, onLogUpdate, tui>>

\* Starts and restarts of apps whose command may fail to spawn.
NextSpawn ==
  \/ OsStep
  \/ HandlerStep
  \/ Verify
  \/ Adopt
  \/ \E p \in Projects : StartProject(p, UiConfig)
  \/ StartLoad
  \/ StartWrite
  \/ StartSpawnFails
  \/ \E p \in DOMAIN loadState(file).activeProjects, a \in Apps :
       RestartApp(a, p, loadState(file).activeProjects[p].dopplerConfig)
  \/ RestartKilled
  \/ RestartAdoptedKilled
  \/ RestartLoad
  \/ RestartWrite
  \/ RestartSpawnFails

SpecSpawn == Init /\ [][NextSpawn]_vars

\* C18: when the spawn of an app fails in startProject or restartApp, the app
\* has a persisted record with status error, no second spawn of the app is
\* made, and (in startProject) the apps after it are spawned all the same.
C18_SpawnFailureIsError ==
  [][(op.pc # "rejected" /\ op'.pc = "rejected") =>
       LET pa == <<op'.proj, op'.app>>
           spawned == DOMAIN children' \ DOMAIN children
       IN /\ pa \in PersistedAppsAfter
          /\ RecordAfter(pa).status = "error"
          /\ \A pid \in spawned : children'[pid].app # op'.app
          /\ op.kind # "restartApp" =>
               \A b \in Apps : b > op'.app =>
                 \E pid \in spawned : children'[pid].app = b]_vars

(* --------------------------- loading the state ------------------------- *)

\* C19: loadState never raises (here it is a total function) and
\* the startup, verifyRunningProcesses followed by adoptRunningProcesses,
\* completes whatever the state file holds: it never ends in the crash.
C19_StartupCompletes ==
  [][(boot.pc = "verified" /\ boot'.pc # "verified") => boot'.pc = "ready"]_vars

\* C20: whatever the state file, the state loadState returns has every field
\* of the persisted state, in particular a default config and an
\* activeProjects map.
C20_LoadedStateComplete ==
  LET state == loadState(file)
  IN /\ Has(state, "dopplerConfig")
     /\ state.dopplerConfig \in DOPPLER_CONFIGS
     /\ HasActiveProjects(state)

(* ------------------------ the write of the state file ------------------ *)

\* saveState is writeFile(STATE_FILE, ...) on the file itself: the file is
\* opened for writing, which empties it, and the content is written after
\* that.  Until then a reader finds an empty or cut-off file, which does not
\* parse.  Here one of the pending saves has opened the file.
SaveOpens ==
  /\ \/ op.pc \in {"saving", "ra_saving", "stop_saving"}
     \/ boot.pc = "v_saving"
     \/ \E pid \in DOMAIN children :
          children[pid].timer = "saving" \/ children[pid].exit = "saving"
  /\ file.kind = "json"
  /\ file' = CorruptFile
  /\ UNCHANGED <<alive, processes, adoptedPids, children, op, boot, nextPid, opCount,
                 portVars, logVars, tui>>

\* startProject on a state without activeProjects: every app is spawned and
\* tracked, then state.activeProjects[alias] = projectState throws and
\* startProject rejects before saveState.
StartLoadRaises ==
  /\ op.pc = "ports"
  /\ ~HasActiveProjects(loadState(file))
  /\ LET p == op.proj
         pidOf(a) == nextPid + a - 1
         pids == {pidOf(a) : a \in Apps}
         appOf(pid) == pid - nextPid + 1
     IN /\ processes' =
             Put(processes, p,
                 [a \in Apps |-> pidOf(a)] @@ (IF Has(processes, p) THEN processes[p] ELSE EmptyMap))
        /\ children' = [pid \in pids |-> Child(p, appOf(pid))] @@ children
        /\ alive' = alive \cup pids
        /\ nextPid' = nextPid + NumApps
        /\ logBuffers' = clearLogBuffer(logBuffers, p, Apps)
        /\ logFiles' = clearLogBuffer(logFiles, p, Apps)
  /\ op' = [op EXCEPT !.pc = "rejected"]
  /\ boot' = [boot EXCEPT !.pc = "crashed"]
  /\ UNCHANGED <<file, adoptedPids, opCount, portVars, logWrites, lastLog,
                 onLogUpdate, tui>>

\* Starts of projects, their children's timers and exit handlers, and the
\* writes of the state file in two steps.
NextSave ==
  \/ OsStep
  \/ HandlerStep
  \/ Verify
  \/ Adopt
  \/ \E p \in Projects : StartProject(p, UiConfig)
  \/ StartLoad
  \/ StartLoadRaises
  \/ StartWrite
  \/ SaveOpens

SpecSave == Init /\ [][NextSave]_vars

\* A step on which loadState reads the state file: a readiness timer fires,
\* an exit handler starts, startProject loads.
LoadsState ==
  \/ \E pid \in DOMAIN children :
       \/ children[pid].timer = "armed" /\ children'[pid].timer # "armed"
       \/ children[pid].exit = "exited" /\ children'[pid].exit # "exited"
  \/ op.pc = "ports" /\ op'.pc # "ports"

\* C21: a loadState that runs while a saveState is in progress reads a whole
\* state, the one before the save or the one after it, never a file that does
\* not parse and is taken for the default state.
C21_LoadSeesWholeState ==
  [][LoadsState => file.kind = "json" /\ HasActiveProjects(loadState(file))]_vars

(* --------------------------- records of spawns ------------------------- *)

\* C22: once an app has been spawned, its record {pid, port, starting} is in
\* the state file: at every moment each spawned process the supervisor
\* tracks has a persisted record with its PID.
C22_SpawnedIsRecorded ==
  \A p \in DOMAIN processes : \A a \in DOMAIN processes[p] :
    /\ <<p, a>> \in PersistedApps
    /\ Record(<<p, a>>).pid = processes[p][a]

(* ------------------------ records and live handles --------------------- *)

\* The PID is tracked for the app, as a spawned handle or as an adopted PID,
\* and alive.
HeldLive(pa, pid) ==
  /\ isProcessRunning(pid)
  /\ \/ Has(processes, pa[1]) /\ Has(processes[pa[1]], pa[2]) /\ processes[pa[1]][pa[2]] = pid
     \/ Has(adoptedPids, pa[1]) /\ Has(adoptedPids[pa[1]], pa[2])
          /\ adoptedPids[pa[1]][pa[2]] = pid

\* C23: every persisted record whose status is not stopped has its PID alive
\* and held by the supervisor, as a spawned handle or as an adopted PID;
\* stated for the states in which the tool is up and nothing is in progress.
C23_NotStoppedIsHeldLive ==
  (boot.pc = "ready" /\ Quiescent) =>
    \A pa \in PersistedApps :
      Record(pa).status # "stopped" => HeldLive(pa, Record(pa).pid)

(* ----------------------- the life of a project's entry ----------------- *)

\* C24: a project has an entry in the persisted activeProjects only while one
\* of its apps has a status other than stopped: once the tool is up and
\* nothing is in progress, no entry holds stopped records only.
C24_EntryHasLiveApp ==
  (boot.pc = "ready" /\ Quiescent) =>
    \A p \in DOMAIN PersistedProjects :
      \E a \in DOMAIN PersistedProjects[p].processes :
        PersistedProjects[p].processes[a].status # "stopped"

(* ------------------------- restartApp: its frame ----------------------- *)

\* What a session can have left of one project for restartApp to find: no
\* entry, or a runtime under the second config with running records of the
\* second of APPS, or of the first two.
RestartRuntimes(p) ==
  {ProjectState("dev_guy", 1,
     [a \in as |-> ProcessInfo(MaxPid + a, getPortForApp(a, p), "running")]) :
     as \in {{2}, {1, 2}}}

InitRestart ==
  /\ file \in {EmptyFile} \cup {MultiFile(1 :> r) : r \in RestartRuntimes(1)}
  /\ alive = {MaxPid + 1, MaxPid + 2}
  /\ opCount = 0
  /\ SupervisorNew
  /\ PortsAtRest
  /\ LogsNew
  /\ tui = TuiNew

\* restartApp with a name that is not among APPS: APPS.find gives undefined
\* and the call returns.
RestartAppUnknown ==
  /\ CanCall
  /\ opCount' = opCount + 1
  /\ UNCHANGED <<file, alive, processes, adoptedPids, children, op, boot, nextPid,
                 portVars, logVars, tui>>

\* restartApp called with any name and project under the default config,
\* whatever the state.
NextRestart ==
  \/ OsStep
  \/ HandlerStep
  \/ Verify
  \/ Adopt
  \/ \E a \in Apps, p \in Projects : restartApp(a, p, "dev")
  \/ RestartAppUnknown
  \/ RestartKilled
  \/ RestartAdoptedKilled
  \/ RestartLoad
  \/ RestartWrite

SpecRestart == InitRestart /\ [][NextRestart]_vars

\* restartApp loads the state and spawns; it saves; it returns at once for an
\* unknown name.
RestartLoads == op.pc = "ra_load" /\ op'.pc = "ra_saving"
RestartSaves == op.pc = "ra_saving" /\ op'.pc = "idle"
RestartReturnsAtOnce == op.pc = "idle" /\ op'.pc = "idle" /\ opCount' = opCount + 1

NewKill(pc, resolves) ==
  [pc |-> pc, sent |-> <<"SIGTERM">>, polls |-> 0, seenDead |-> FALSE,
   resolves |-> resolves]

KillingPcs == {"stop_killing", "stop_killingAdopted", "ra_killing", "ra_killingAdopted"}

\* The OS ends the process on a signal.
Killed(pid) ==
  /\ alive' = alive \ {pid}
  /\ children' = IF Has(children, pid) /\ pid \in alive
                   THEN [children EXCEPT ![pid].exit = "exited"]
                   ELSE children

\* treeKill(pid, 'SIGTERM', callback) has run and called back: with an error
\* the call resolves; without, the poll and the timeout are set up.  A dead
\* PID is no error for treeKill.
KillTerm(pid) ==
  /\ op.pc \in KillingPcs
  /\ pid \in Values(op.targets)
  /\ ~Has(op.kill, pid)
  /\ \E err \in BOOLEAN :
       op' = [op EXCEPT !.kill = Put(@, pid, IF err THEN NewKill("resolved", 1)
                                                     ELSE NewKill("polling", 0))]
  /\ UNCHANGED <<file, alive, processes, adoptedPids, children, boot, nextPid, opCount,
                 portVars, logVars, tui>>

\* The poll resolves although it leaves the timeout set.
KillPollKeepsTimeout(pid) ==
  /\ Has(op.kill, pid)
  /\ op.kill[pid].pc = "polling"
  /\ op.kill[pid].polls < KillPolls
  /\ op' = IF ~isProcessRunning(pid)
             THEN [op EXCEPT !.kill[pid].seenDead = TRUE, !.kill[pid].resolves = 1,
                             !.kill[pid].polls = @ + 1]
             ELSE [op EXCEPT !.kill[pid].polls = @ + 1]
  /\ UNCHANGED <<file, alive, processes, adoptedPids, children, boot, nextPid, opCount,
                 portVars, logVars, tui>>
\* The setInterval callback, every 100 ms: with the PID gone it clears the
\* interval and the timeout and resolves.
KillPoll(pid) ==
  /\ Has(op.kill, pid)
  /\ op.kill[pid].pc = "polling"
  /\ op.kill[pid].polls < KillPolls
  /\ op' = IF ~isProcessRunning(pid)
             THEN [op EXCEPT !.kill[pid].pc = "resolved", !.kill[pid].seenDead = TRUE,
                             !.kill[pid].resolves = @ + 1]
             ELSE [op EXCEPT !.kill[pid].polls = @ + 1]
  /\ UNCHANGED <<file, alive, processes, adoptedPids, children, boot, nextPid, opCount,
                 portVars, logVars, tui>>

\* The setTimeout callback, after the timeout: it clears the interval and
\* calls treeKill(pid, 'SIGKILL', ...), which ends the process if the signal
\* can be delivered.
KillForce(pid) ==
  /\ Has(op.kill, pid)
  /\ op.kill[pid].pc = "polling"
  /\ op.kill[pid].polls = KillPolls
  /\ op' = [op EXCEPT !.kill[pid].pc = "forced", !.kill[pid].sent = Append(@, "SIGKILL")]
  /\ \/ Killed(pid)
     \/ UNCHANGED <<alive, children>>
  /\ UNCHANGED <<file, processes, adoptedPids, boot, nextPid, opCount, portVars, logVars,
                 tui>>

\* The forced treeKill stays without calling back.
KillForceHangs(pid) ==
  /\ Has(op.kill, pid)
  /\ op.kill[pid].pc = "forced"
  /\ op' = [op EXCEPT !.kill[pid].pc = "hung"]
  /\ UNCHANGED <<file, alive, processes, adoptedPids, children, boot, nextPid, opCount,
                 portVars, logVars, tui>>
\* treeKill(pid, 'SIGKILL', () => resolve()) calls back, with an error or not.
KillForceDone(pid) ==
  /\ Has(op.kill, pid)
  /\ op.kill[pid].pc = "forced"
  /\ op' = [op EXCEPT !.kill[pid].pc = "resolved", !.kill[pid].resolves = @ + 1]
  /\ UNCHANGED <<file, alive, processes, adoptedPids, children, boot, nextPid, opCount,
                 portVars, logVars, tui>>

KillStep ==
  \E pid \in Values(op.targets) :
    \/ KillTerm(pid)
    \/ KillPoll(pid)
    \/ KillForce(pid)
    \/ KillForceDone(pid)

StopStep ==
  \/ StopLoad
  \/ StopKilled
  \/ StopAdoptedKilled
  \/ StopWrite
  \/ RestartKilled
  \/ RestartAdoptedKilled
  \/ RestartLoad
  \/ RestartWrite

\* Stops and restarts with every step of their killProcessTree calls; the
\* children's own handlers, which take no part in them, are left out.
NextKill ==
  \/ OsStep
  \/ Verify
  \/ Adopt
  \/ \E p \in Projects : StartProject(p, UiConfig)
  \/ StartLoad
  \/ StartWrite
  \/ \E p \in Projects : StopProject(p)
  \/ \E p \in DOMAIN loadState(file).activeProjects, a \in Apps :
       RestartApp(a, p, loadState(file).activeProjects[p].dopplerConfig)
  \/ StopStep
  \/ KillStep

\* Timers fire and callbacks are called; awaited reads and writes end.
SpecKill == Init /\ [][NextKill]_vars /\ WF_vars(KillStep) /\ WF_vars(StopStep)

\* C26: killProcessTree sends SIGTERM first, and SIGKILL to the same PID only
\* after the polls of the whole timeout have not seen the PID dead: SIGKILL
\* never comes before SIGTERM nor after a poll has seen the PID dead.
C26_TermThenKillIfNotSeenDead ==
  \A pid \in DOMAIN op.kill :
    LET k == op.kill[pid]
    IN /\ k.sent \in {<<"SIGTERM">>, <<"SIGTERM", "SIGKILL">>}
       /\ k.sent = <<"SIGTERM", "SIGKILL">> => ~k.seenDead /\ k.polls = KillPolls
       /\ k.seenDead => k.sent = <<"SIGTERM">>

\* A kill has been escalated: the process ignored SIGTERM for the timeout.
C26_Witness ==
  \E pid \in DOMAIN op.kill :
    /\ op.kill[pid].sent = <<"SIGTERM", "SIGKILL">>
    /\ op.kill[pid].pc = "resolved"

\* A stop or restart is in progress.
Stopping ==
  op.pc \in KillingPcs \cup {"stop_load", "stop_saving", "ra_load", "ra_saving"}

\* C27: every killProcessTree resolves, and once only, whatever the process
\* does (gone already, ends on SIGTERM, ignores it, the signal cannot be
\* delivered), so that every stop and restart runs to its end.
C27_KillResolvesOnce ==
  /\ [](\A pid \in DOMAIN op.kill :
          /\ op.kill[pid].resolves <= 1
          /\ op.kill[pid].pc = "resolved" <=> op.kill[pid].resolves = 1)
  /\ (Stopping ~> op.pc = "idle")

\* stopProject has gone on to its save after a kill that resolved when its
\* poll saw the PID dead.
C27_Witness ==
  /\ op.pc = "stop_saving"
  /\ \E pid \in DOMAIN op.kill :
       /\ op.kill[pid].pc = "resolved"
       /\ op.kill[pid].seenDead

(* ---------------------------- the render loop -------------------------- *)

\* The first MAX_LOG_LINES lines written back instead of the last.
truncateToFirst(content) ==
  LET lines == SelectSeq(SplitLines(content), NonBlank)
  IN IF Len(lines) > MAX_LOG_LINES THEN SubSeq(lines, 1, MAX_LOG_LINES) ELSE content
\* truncateLogFile on a file of this content: with more than MAX_LOG_LINES
\* non-blank lines the last MAX_LOG_LINES of them are written back, each
\* ended by a line break; else the file is left as it is.
truncateLogFile(content) ==
  LET lines == SelectSeq(SplitLines(content), NonBlank)
  IN IF Len(lines) > MAX_LOG_LINES THEN SliceLast(lines, MAX_LOG_LINES) ELSE content

\* for (const project of PROJECTS) for (const app of APPS): the pairs in order.
AllPairs ==
  [i \in 1..(NumProjects * NumApps) |->
     makeLogKey(((i - 1) \div NumApps) + 1, ((i - 1) % NumApps) + 1)]

\* setInterval(async () => {...}, 1000) fires: a run of the callback starts
\* with its loadState.  dead: the tracked PIDs that were gone by then;
\* rewrote: the log files the run has cut down.
TickFire ==
  /\ boot.pc = "ready"
  /\ tui.fired < MaxTicks
  /\ tui' = [tui EXCEPT !.fired = @ + 1,
               !.ticks = Append(@, [pc |-> "reload", queue |-> <<>>, rewrote |-> 0,
                                    dead |-> AllTrackedPids \ alive])]
  /\ UNCHANGED <<supervisorVars, portVars, logVars>>

\* The run without tick i.
TickEnds(i) == SubSeq(tui.ticks, 1, i - 1) \o SubSeq(tui.ticks, i + 1, Len(tui.ticks))

\* this.state.appState = await loadState(); then refreshGitStatus is awaited.
TickReload(i) ==
  /\ i \in DOMAIN tui.ticks
  /\ tui.ticks[i].pc = "reload"
  /\ tui' = [tui EXCEPT !.ticks[i].pc = "stats"]
  /\ UNCHANGED <<supervisorVars, portVars, logVars>>

\* updateStats: loadState, the stats and port checks of the records (followed
\* in UpdateStats; they change nothing of what the run reads), truncateCounter++, and on the
\* TruncateEvery-th call the truncation of every log file is begun.
\* Object.entries(state.activeProjects) throws without the field.
TickStats(i) ==
  /\ i \in DOMAIN tui.ticks
  /\ tui.ticks[i].pc = "stats"
  /\ IF ~HasActiveProjects(loadState(file))
       THEN /\ tui' = [tui EXCEPT !.ticks = TickEnds(i)]
            /\ boot' = [boot EXCEPT !.pc = "crashed"]
       ELSE /\ tui' = IF tui.truncateCounter + 1 >= TruncateEvery
                        THEN [tui EXCEPT !.truncateCounter = 0, !.statsCalls = @ + 1,
                                         !.ticks[i].pc = "truncate",
                                         !.ticks[i].queue = AllPairs]
                        ELSE [tui EXCEPT !.truncateCounter = @ + 1, !.statsCalls = @ + 1,
                                         !.ticks[i].pc = "render"]
            /\ UNCHANGED boot
  /\ UNCHANGED <<file, alive, processes, adoptedPids, children, op, nextPid, opCount,
                 portVars, logVars>>

\* await this.truncateLogFile(project.alias, app.name) for the next pair:
\* nothing without the file.
TickTruncate(i) ==
  /\ i \in DOMAIN tui.ticks
  /\ tui.ticks[i].pc = "truncate"
  /\ LET key == Head(tui.ticks[i].queue)
         rest == Tail(tui.ticks[i].queue)
     IN /\ logFiles' = IF Has(logFiles, key)
                         THEN [logFiles EXCEPT ![key] = truncateLogFile(@)]
                         ELSE logFiles
        /\ tui' = [tui EXCEPT !.ticks[i].queue = rest,
                              !.ticks[i].pc = IF rest = <<>> THEN "render" ELSE "truncate",
                              !.ticks[i].rewrote =
                                 IF Has(logFiles, key) /\ logFiles'[key] # logFiles[key]
                                   THEN @ + 1 ELSE @]
  /\ UNCHANGED <<logBuffers, logWrites, lastLog, onLogUpdate, supervisorVars, portVars>>

\* this.render(), and the run of the callback is over.
TickRender(i) ==
  /\ i \in DOMAIN tui.ticks
  /\ tui.ticks[i].pc = "render"
  /\ tui' = [tui EXCEPT !.ticks = TickEnds(i)]
  /\ UNCHANGED <<supervisorVars, portVars, logVars>>

TickStep ==
  \E i \in 1..MaxTicks :
    \/ TickReload(i)
    \/ TickStats(i)
    \/ TickTruncate(i)
    \/ TickRender(i)

\* The tool from its start on what a previous session left, the processes
\* it adopts, and the render loop.
NextTick ==
  \/ OsStep
  \/ Verify
  \/ Adopt
  \/ TickFire
  \/ TickStep

SpecTick == Init /\ [][NextTick]_vars

\* C28: at most one run of the periodic tick is in progress at any time.
C28_OneTickAtATime == Len(tui.ticks) <= 1

\* A tick ends: the run of the callback comes to its render.
TickEnded == Len(tui'.ticks) < Len(tui.ticks)

\* C29: when a tick ends that began after a tracked process had died, and no
\* handler of a child is still due, that process is not tracked any more
\* (isAppRunning does not report its app running on its account) and its
\* persisted status is neither running nor starting.
C29_TickReconcilesDead ==
  [][(TickEnded /\ Quiescent') =>
       \A i \in DOMAIN tui.ticks : tui.ticks[i].pc = "render" =>
         \A pid \in tui.ticks[i].dead :
           /\ pid \notin AllTrackedPids'
           /\ \A pa \in PersistedAppsAfter :
                RecordAfter(pa).pid = pid =>
                  RecordAfter(pa).status \notin {"running", "starting"}]_vars

(* ---------------------- the truncation of the log files ---------------- *)

\* A running tool over any log file a previous session left for the first app.
InitTruncate ==
  /\ file = EmptyFile
  /\ alive = {}
  /\ opCount = 0
  /\ SupervisorReady
  /\ PortsAtRest
  /\ logBuffers = EmptyMap
  /\ logFiles \in PrevLogFiles
  /\ logWrites = <<>>
  /\ lastLog = NoLog
  /\ onLogUpdate = "set"
  /\ tui = TuiNew

\* The render loop of a running tool while lines arrive and are appended to
\* the log file.
NextTruncate ==
  \/ TickFire
  \/ TickStep
  \/ AddLogLine(1, 1, <<"b">>)
  \/ \E i \in 1..MaxLogCalls : LogWriteDone(i)

SpecTruncate == InitTruncate /\ [][NextTruncate]_vars

\* A step of truncateLogFile on the next pair of run i; a step on which an
\* updateStats call comes to the counter, and one on which it begins the
\* truncation.
TruncatesNext(i) ==
  /\ i \in DOMAIN tui.ticks
  /\ tui.ticks[i].pc = "truncate"
  /\ Len(tui'.ticks) = Len(tui.ticks)
  /\ Len(tui'.ticks[i].queue) < Len(tui.ticks[i].queue)
StatsCounted == tui'.statsCalls = tui.statsCalls + 1
TruncationBegun ==
  \E i \in DOMAIN tui.ticks :
    /\ tui.ticks[i].pc = "stats"
    /\ Len(tui'.ticks) = Len(tui.ticks)
    /\ tui'.ticks[i].pc = "truncate"
    /\ tui'.ticks[i].queue = AllPairs

\* The file after a truncation of the file before: unchanged with at most
\* MAX_LOG_LINES non-blank lines, else exactly the last MAX_LOG_LINES of
\* them in their order.
IsTruncationOf(after, before) ==
  LET lines == SelectSeq(before, NonBlank)
  IN IF Len(lines) <= MAX_LOG_LINES
       THEN after = before
       ELSE /\ Len(after) = MAX_LOG_LINES
            /\ \A j \in 1..MAX_LOG_LINES :
                 after[j] = lines[Len(lines) - MAX_LOG_LINES + j]

ProjectPortIds == [a \in Apps |-> a]

\* A running tool with no project started, the project's ports held by
\* anything.
InitStart ==
  /\ file = EmptyFile
  /\ alive = {}
  /\ opCount = 0
  /\ SupervisorReady
  /\ holder \in {h \in [PortIds -> Holders] : \A i \in PortIds \ Apps : h[i] = "free"}
  /\ ens = NoCall
  /\ kp = [i \in PortIds |-> [pc |-> "idle", attempt |-> 0]]
  /\ bind = "none"
  /\ occupied = 0
  /\ logBuffers = EmptyMap
  /\ logFiles = EmptyMap
  /\ logWrites = <<>>
  /\ lastLog = NoLog
  /\ onLogUpdate = "set"
  /\ tui = TuiNew

\* startProject is called: getProjectPorts, and ensurePortsAvailable starts
\* its first round.
StartEnsure(p, cfg) ==
  /\ CanCall
  /\ ~isProjectRunning(p)
  /\ nextPid + NumApps - 1 <= MaxPid
  /\ op' = NewOp("startProject", "ensure", p, 0, cfg, TrackedPids(p))
  /\ opCount' = opCount + 1
  /\ ens' = EnsureCall(ProjectPortIds)
  /\ kp' = RoundKills(ProjectPortIds)
  /\ UNCHANGED <<file, alive, processes, adoptedPids, children, boot, nextPid,
                 holder, bind, occupied, logVars, tui>>

\* The call goes on without waiting for ensurePortsAvailable.
StartEnsureNotAwaited ==
  /\ op.pc = "ensure"
  /\ op' = [op EXCEPT !.pc = "nx"]
  /\ UNCHANGED <<file, alive, processes, adoptedPids, children, boot, nextPid,
                 opCount, portVars, logVars, tui>>

\* ensurePortsAvailable has returned; resetNxDaemon is awaited.
StartEnsureReturned ==
  /\ op.pc = "ensure"
  /\ ens.pc = "returned"
  /\ op' = [op EXCEPT !.pc = "nx"]
  /\ UNCHANGED <<file, alive, processes, adoptedPids, children, boot, nextPid,
                 opCount, portVars, logVars, tui>>

\* resetNxDaemon has returned: clearLogBuffer for every app, then loadState is
\* awaited.
StartClear ==
  /\ op.pc = "nx"
  /\ logBuffers' = clearLogBuffer(logBuffers, op.proj, Apps)
  /\ logFiles' = clearLogBuffer(logFiles, op.proj, Apps)
  /\ op' = [op EXCEPT !.pc = "ports"]
  /\ UNCHANGED <<file, alive, processes, adoptedPids, children, boot, nextPid,
                 opCount, portVars, logWrites, lastLog, onLogUpdate, tui>>

\* loadState has returned: the loop over APPS and the call of saveState, as in
\* StartLoad, the buffers having been cleared before.
StartSpawn ==
  /\ op.pc = "ports"
  /\ HasActiveProjects(loadState(file))
  /\ LET p == op.proj
         state == loadState(file)
         pidOf(a) == nextPid + a - 1
         pids == {pidOf(a) : a \in Apps}
         appOf(pid) == pid - nextPid + 1
         projectState ==
           ProjectState(op.cfg, Now,
             [a \in Apps |-> ProcessInfo(pidOf(a), getPortForApp(a, p), "starting")])
     IN /\ processes' =
             Put(processes, p,
                 [a \in Apps |-> pidOf(a)] @@ (IF Has(processes, p) THEN processes[p] ELSE EmptyMap))
        /\ children' = [pid \in pids |-> Child(p, appOf(pid))] @@ children
        /\ alive' = alive \cup pids
        /\ nextPid' = nextPid + NumApps
        /\ op' = [op EXCEPT !.pc = "saving",
                            !.st = [state EXCEPT !.activeProjects = Put(@, p, projectState)]]
  /\ UNCHANGED <<file, adoptedPids, boot, opCount, portVars, logVars, tui>>

NextStart ==
  \/ StartEnsure(1, UiConfig)
  \/ ReconcilerStep
  \/ StartEnsureReturned
  \/ StartClear
  \/ StartSpawn
  \/ StartWrite
  \/ OsStep
  \/ HandlerStep
  \/ AddLogLine(1, 1, <<"b">>)

SpecStart == InitStart /\ [][NextStart]_vars

\* A step that spawns a process.
Spawns == DOMAIN children' # DOMAIN children

\* The PIDs a step spawns are handed out one after another: a later spawn has
\* the larger PID.
SpawnedInOrder(p) ==
  \A a, b \in Apps : a < b => processes'[p][a] < processes'[p][b]

NL == "NL"
MaxStdout == 4
MaxStderr == 2

\* What a child writes: anything on stdout; on stderr, so that its lines can
\* be told from those of stdout, a letter of its own.
Streams == {"stdout", "stderr"}
StreamChars(name) == IF name = "stdout" THEN {"a", " ", NL} ELSE {"e", NL}
StreamLen(name) == IF name = "stdout" THEN MaxStdout ELSE MaxStderr
StreamContents(name) ==
  UNION {[1..n -> StreamChars(name)] : n \in 0..StreamLen(name)}

\* str.split('\n'): the pieces between the line breaks, one more than there
\* are line breaks.
RECURSIVE split(_)
split(str) ==
  IF \A i \in DOMAIN str : str[i] # NL
    THEN <<str>>
    ELSE LET k == CHOOSE i \in DOMAIN str : str[i] = NL /\ \A j \in 1..(i - 1) : str[j] # NL
         IN <<SubSeq(str, 1, k - 1)>> \o split(SubSeq(str, k + 1, Len(str)))

\* `[${timestamp}] ${line}`
Stamp(line) == <<"[t]", " ">> \o line
Stamped(lines) == [i \in DOMAIN lines |-> Stamp(lines[i])]

\* One stream of a child as streamOutput holds it: what the child has still to
\* write of its content, and the local variable buffer.
NewStream(content) ==
  [pc |-> "reading", content |-> content, rest |-> content, buffer |-> <<>>]

\* addLogLine on the log side l of the state, as AddLogLine.
addLogLine(l, p, a, line) ==
  LET key == makeLogKey(p, a)
      pushed == Append(IF Has(l.logBuffers, key) THEN l.logBuffers[key] ELSE <<>>, line)
      didShift == Len(pushed) > MAX_LOG_LINES
      lines == IF didShift THEN Tail(pushed) ELSE pushed
  IN [logBuffers |-> Put(l.logBuffers, key, lines),
      logWrites |-> Append(l.logWrites, [key |-> key, line |-> line]),
      lastLog |-> [seq |-> l.lastLog.seq + 1, kind |-> "addLogLine",
                   key |-> key, line |-> line, returned |-> didShift,
                   notified |-> IF onLogUpdate = "set"
                                  THEN <<[project |-> p, app |-> a, line |-> line,
                                          didShift |-> didShift]>>
                                  ELSE <<>>],
      tui |-> IF onLogUpdate = "set"
                THEN LogUpdateHandler(l.tui, p, a, didShift, lines) ELSE l.tui]

\* for (const line of lines) if (line.trim()) this.addLogLine(..., stamped)
RECURSIVE addLogLines(_, _, _, _)
addLogLines(l, p, a, lines) ==
  IF lines = <<>> THEN l
  ELSE addLogLines(IF NonBlank(Head(lines))
                     THEN addLogLine(l, p, a, Stamp(Head(lines))) ELSE l,
                   p, a, Tail(lines))

LogSide ==
  [logBuffers |-> logBuffers, logWrites |-> logWrites, lastLog |-> lastLog, tui |-> tui]

\* The lines are added and the stream of the child is left as given.
StreamAdds(pid, name, lines, stream) ==
  LET l == addLogLines(LogSide, children[pid].proj, children[pid].app, lines)
  IN /\ logBuffers' = l.logBuffers
     /\ logWrites' = l.logWrites
     /\ lastLog' = l.lastLog
     /\ tui' = l.tui
     /\ children' = [children EXCEPT ![pid][name] = stream]
     /\ UNCHANGED <<file, alive, processes, adoptedPids, op, boot, nextPid, opCount,
                    portVars, logFiles, onLogUpdate>>

\* Every piece of a chunk is a line, and nothing is carried to the next chunk.
StreamReadNoCarry(pid, name) ==
  LET st == children[pid][name]
  IN /\ st.pc = "reading"
     /\ st.rest # <<>>
     /\ \E n \in 1..Len(st.rest) :
          LET lines == split(st.buffer \o SubSeq(st.rest, 1, n))
          IN StreamAdds(pid, name, lines,
                        [st EXCEPT !.rest = SubSeq(st.rest, n + 1, Len(st.rest)),
                                   !.buffer = <<>>])
\* reader.read() returns a chunk, of any length: the lines complete with it
\* are added, what follows the last line break is kept in buffer.
StreamRead(pid, name) ==
  LET st == children[pid][name]
  IN /\ st.pc = "reading"
     /\ st.rest # <<>>
     /\ \E n \in 1..Len(st.rest) :
          LET lines == split(st.buffer \o SubSeq(st.rest, 1, n))
          IN StreamAdds(pid, name, SubSeq(lines, 1, Len(lines) - 1),
                        [st EXCEPT !.rest = SubSeq(st.rest, n + 1, Len(st.rest)),
                                   !.buffer = lines[Len(lines)]])

\* reader.read() returns done: the remaining buffer is added.
StreamDone(pid, name) ==
  LET st == children[pid][name]
  IN /\ st.pc = "reading"
     /\ st.rest = <<>>
     /\ StreamAdds(pid, name, <<st.buffer>>, [st EXCEPT !.pc = "closed", !.buffer = <<>>])

\* startApp has spawned the first app and started streamOutput on its stdout
\* and on its stderr; the child writes any content to either.
InitStream ==
  /\ file = MultiFile(1 :> ProjectState("dev", 1,
                                        1 :> ProcessInfo(1, getPortForApp(1, 1), "starting")))
  /\ alive = {1}
  /\ processes = (1 :> (1 :> 1))
  /\ adoptedPids = EmptyMap
  /\ \E out \in StreamContents("stdout"), err \in StreamContents("stderr") :
       children = (1 :> ([stdout |-> NewStream(out), stderr |-> NewStream(err)]
                           @@ Child(1, 1)))
  /\ op = IdleOp
  /\ boot = [pc |-> "ready", st |-> EmptyMap, dead |-> {}]
  /\ nextPid = 2
  /\ opCount = 1
  /\ PortsAtRest
  /\ logBuffers = EmptyMap
  /\ logFiles = EmptyMap
  /\ logWrites = <<>>
  /\ lastLog = NoLog
  /\ onLogUpdate = "set"
  /\ tui = TuiNew

NextStream ==
  \E pid \in DOMAIN children, name \in Streams :
    \/ StreamRead(pid, name)
    \/ StreamDone(pid, name)

SpecStream == InitStream /\ [][NextStream]_vars

\* The addLogLine calls made so far for the lines of one stream, in the order
\* of the calls.
CallsOf(name) ==
  LET from(w) == (name = "stderr") <=> (\E i \in DOMAIN w.line : w.line[i] = "e")
      calls == SelectSeq(logWrites, from)
  IN [i \in DOMAIN calls |-> calls[i].line]

\* The non-blank lines of a content that are ended by a line break, and with
\* them its non-blank trailing data.
TerminatedLines(content) ==
  LET pieces == split(content)
  IN SelectSeq(SubSeq(pieces, 1, Len(pieces) - 1), NonBlank)
LinesAndTrailing(content) == SelectSeq(split(content), NonBlank)

\* C32: for one output stream of an app, every non-blank line terminated by a
\* line break produces exactly one addLine call, in the order of the stream,
\* across arbitrary chunk boundaries; non-blank trailing data without a line
\* break is added as a final line when the stream closes; the lines of stdout
\* and stderr interleave in any order, each stream's own order kept.
C32_OneCallPerLine ==
  \A pid \in DOMAIN children, name \in Streams :
    LET st == children[pid][name]
        written == SubSeq(st.content, 1, Len(st.content) - Len(st.rest))
    IN CallsOf(name) =
         IF st.pc = "closed" THEN Stamped(LinesAndTrailing(st.content))
                             ELSE Stamped(TerminatedLines(written))

\* stdout has closed after a line that came in more than one chunk and
\* trailing data; the line of stderr was added between the two.
C32_Witness ==
  /\ children[1].stdout.pc = "closed"
  /\ children[1].stdout.content = <<"a", "a", NL, "a">>
  /\ children[1].stderr.content = <<"e", NL>>
  /\ [i \in DOMAIN logWrites |-> logWrites[i].line] =
       <<Stamp(<<"a", "a">>), Stamp(<<"e">>), Stamp(<<"a">>)>>


(* --------------------------- adoption: the frame ----------------------- *)

\* The step on which adoptRunningProcesses ends, returning or raising.
AdoptEnds == boot.pc = "verified" /\ boot'.pc # "verified"

\* C33: adoptRunningProcesses tracks as adopted exactly the persisted records
\* whose status is running and whose PID is alive, each with its PID; records
\* with a dead PID or with status starting, stopped or error are not tracked;
\* and adoption changes neither the persisted state nor the spawned-process
\* map.
C33_AdoptsExactlyRunningLive ==
  [][AdoptEnds =>
       /\ \A p \in Projects, a \in Apps :
            (Has(adoptedPids', p) /\ Has(adoptedPids'[p], a)) <=>
              /\ <<p, a>> \in PersistedApps
              /\ Record(<<p, a>>).status = "running"
              /\ isProcessRunning(Record(<<p, a>>).pid)
       /\ \A p \in DOMAIN adoptedPids' : \A a \in DOMAIN adoptedPids'[p] :
            adoptedPids'[p][a] = Record(<<p, a>>).pid
       /\ file' = file
       /\ processes' = processes]_vars

\* The first project's app was adopted; the second project's record, with a
\* live PID and status starting, was not.
C33_Witness ==
  /\ boot.pc = "ready"
  /\ op.pc = "idle"
  /\ Has(adoptedPids, 1)
  /\ ~Has(adoptedPids, 2)
  /\ <<2, 1>> \in PersistedApps
  /\ Record(<<2, 1>>).status = "starting"
  /\ isProcessRunning(Record(<<2, 1>>).pid)


(* ------------------- key events that do not wait their turn ------------ *)

\* stdin hands every key to handleKeypress and awaits none of the calls
\* (app.ts:921): a toggle can be pressed while the one before is in progress.
MaxToggles == 2

\* The runs of toggleSelectedProject that have yet to spawn.
Unspawned == {i \in DOMAIN tui.toggles : tui.toggles[i].pc = "ports"}

\* The toggle key on a project that isProjectRunning says is not running:
\* startProject is called and awaits ensurePortsAvailable, resetNxDaemon and
\* loadState.
ToggleStart(p) ==
  /\ boot.pc = "ready"
  /\ opCount < MaxOps
  /\ Len(tui.toggles) < MaxToggles
  /\ ~isProjectRunning(p)
  /\ nextPid + NumApps * (Cardinality(Unspawned) + 1) - 1 <= MaxPid
  /\ tui' = [tui EXCEPT !.toggles =
               Append(@, [pc |-> "ports", proj |-> p, cfg |-> UiConfig, at |-> Now,
                          st |-> EmptyMap])]
  /\ opCount' = opCount + 1
  /\ UNCHANGED <<file, alive, processes, adoptedPids, children, op, boot, nextPid,
                 portVars, logVars>>

\* loadState has returned to the startProject of the i-th run: the buffers were
\* cleared on the way, and the loop over APPS spawns, as in StartLoad.
ToggleLoad(i) ==
  /\ i \in Unspawned
  /\ HasActiveProjects(loadState(file))
  /\ LET t == tui.toggles[i]
         p == t.proj
         state == loadState(file)
         pidOf(a) == nextPid + a - 1
         pids == {pidOf(a) : a \in Apps}
         appOf(pid) == pid - nextPid + 1
         projectState ==
           ProjectState(t.cfg, t.at,
             [a \in Apps |-> ProcessInfo(pidOf(a), getPortForApp(a, p), "starting")])
     IN /\ processes' =
             Put(processes, p,
                 [a \in Apps |-> pidOf(a)] @@ (IF Has(processes, p) THEN processes[p] ELSE EmptyMap))
        /\ children' = [pid \in pids |-> Child(p, appOf(pid))] @@ children
        /\ alive' = alive \cup pids
        /\ nextPid' = nextPid + NumApps
        /\ tui' = [tui EXCEPT !.toggles[i].pc = "saving",
                              !.toggles[i].st =
                                [state EXCEPT !.activeProjects = Put(@, p, projectState)]]
        /\ logBuffers' = clearLogBuffer(logBuffers, p, Apps)
        /\ logFiles' = clearLogBuffer(logFiles, p, Apps)
  /\ UNCHANGED <<file, adoptedPids, op, boot, opCount, portVars, logWrites, lastLog,
                 onLogUpdate>>

\* saveState of the i-th run is done, startProject returns and the run ends.
ToggleWrite(i) ==
  /\ i \in DOMAIN tui.toggles
  /\ tui.toggles[i].pc = "saving"
  /\ file' = saveState(tui.toggles[i].st)
  /\ tui' = [tui EXCEPT !.toggles =
               SubSeq(@, 1, i - 1) \o SubSeq(@, i + 1, Len(@))]
  /\ UNCHANGED <<alive, processes, adoptedPids, children, op, boot, nextPid, opCount,
                 portVars, logVars>>

NextToggle ==
  \/ \E p \in Projects : ToggleStart(p)
  \/ \E i \in 1..MaxToggles : ToggleLoad(i)
  \/ \E i \in 1..MaxToggles : ToggleWrite(i)
  \/ OsStep
  \/ HandlerStep

SpecToggle == InitStart /\ [][NextToggle]_vars

\* C34: for every (project, app) at most one process spawned by the
\* supervisor is alive at any time, also when start requests for the same
\* project overlap: the app is not spawned twice.
C34_OneLiveProcessPerApp ==
  \A pid1, pid2 \in DOMAIN children \cap alive :
    (children[pid1].proj = children[pid2].proj
       /\ children[pid1].app = children[pid2].app) => pid1 = pid2


(* ------------------- handlers of a process that was replaced ----------- *)

\* A step of the readiness timer or of the exit handler of the child.
HandlerActs(pid) ==
  /\ Has(children, pid)
  /\ \/ children'[pid].timer # children[pid].timer
     \/ children'[pid].exit # children[pid].exit

\* The statuses a state file records for the PID, and whether the supervisor
\* holds the PID as the handle of its app.
StatusesOfPid(f, pid) ==
  {ActiveProjectsOf(f)[p].processes[a].status :
     p \in {q \in DOMAIN ActiveProjectsOf(f) :
              \E b \in DOMAIN ActiveProjectsOf(f)[q].processes :
                ActiveProjectsOf(f)[q].processes[b].pid = pid},
     a \in {b \in Apps :
              \E q \in DOMAIN ActiveProjectsOf(f) :
                /\ Has(ActiveProjectsOf(f)[q].processes, b)
                /\ ActiveProjectsOf(f)[q].processes[b].pid = pid}}
HoldsHandle(procs, pid) ==
  \E p \in DOMAIN procs : \E a \in DOMAIN procs[p] : procs[p][a] = pid

\* The live processes spawned for the same app as the child.
Replacements(pid) ==
  {other \in (DOMAIN children \cap alive) \ {pid} :
     /\ children[other].proj = children[pid].proj
     /\ children[other].app = children[pid].app}

\* C35: the exit handler and the readiness timer registered for a process act
\* only on that process: once a restart has spawned a replacement, a step of
\* the handlers of the killed process neither changes the status recorded for
\* the live replacement nor removes its handle, so that the restarted app
\* stays reported by isAppRunning and is not marked stopped or error.
C35_HandlersActOnOwnProcess ==
  [][\A pid \in DOMAIN children \ alive : HandlerActs(pid) =>
       \A other \in Replacements(pid) :
         /\ StatusesOfPid(file', other) = StatusesOfPid(file, other)
         /\ HoldsHandle(processes, other) => HoldsHandle(processes', other)]_vars


(* ---------------------- after stopProject has returned ----------------- *)

\* StopWrite for a stopProject the UI called, remembered as the operation
\* that returned last until the next one is called.
StopReturns ==
  /\ op.pc = "stop_saving"
  /\ op.kind = "stopProject"
  /\ file' = saveState(op.st)
  /\ op' = [IdleOp EXCEPT !.kind = "stopProject", !.proj = op.proj]
  /\ UNCHANGED <<alive, processes, adoptedPids, children, boot, nextPid, opCount,
                 portVars, logVars, tui>>

\* Projects are started and stopped, one call at a time, while the handlers
\* of their processes run.
NextStop ==
  \/ OsStep
  \/ HandlerStep
  \/ Verify
  \/ Adopt
  \/ \E p \in Projects : StartProject(p, UiConfig)
  \/ StartLoad
  \/ StartWrite
  \/ \E p \in Projects : StopProject(p)
  \/ StopLoad
  \/ StopKilled
  \/ StopAdoptedKilled
  \/ StopReturns

SpecStop == Init /\ [][NextStop]_vars

\* stopProject(p) has returned and nothing was called since.
StoppedLast(p) == op.pc = "idle" /\ op.kind = "stopProject" /\ op.proj = p

\* C36: once stopProject(alias) has returned, and no start or restart of the
\* project is in progress or was issued afterwards, the persisted state holds
\* no runtime for alias, also while the exit handlers and readiness timers of
\* the killed processes run their load, modify and save.
C36_StoppedStaysRemoved ==
  \A p \in Projects : StoppedLast(p) => ~Has(PersistedProjects, p)


(* ------------------ one project's operation and the others ------------- *)

\* A step of the stopProject or startProject the UI called.
StartOrStopActs ==
  /\ op.kind \in {"startProject", "stopProject"}
  /\ op' # op

\* The handles tracked for a project, spawned and adopted.
HandlesOf(procs, adopted, p) ==
  <<IF Has(procs, p) THEN procs[p] ELSE EmptyMap,
    IF Has(adopted, p) THEN adopted[p] ELSE EmptyMap>>

\* C37: stopProject(alias) and startProject(project) change only the target
\* project's entry of the persisted state: what the file holds for another
\* project when the operation saves, status updates written since the
\* operation's load included, is there after the save; and the handles
\* tracked for other projects are untouched.
C37_OnlyTargetEntryChanges ==
  [][StartOrStopActs =>
       \A q \in Projects \ {op.proj} :
         /\ EntryOf(file', q) = EntryOf(file, q)
         /\ HandlesOf(processes', adoptedPids', q) = HandlesOf(processes, adoptedPids, q)]_vars


(* ------------------------ updateStats: the ports ----------------------- *)

\* this.portListening.get(key) ?? false
isAppListening(p, a) ==
  IF Has(tui.portListening, makeLogKey(p, a))
    THEN tui.portListening[makeLogKey(p, a)] ELSE FALSE

getListeningAppCount(p) == Cardinality({a \in Apps : isAppListening(p, a)})

\* What isPortInUse can answer for the ports of the records: a port is in
\* use only while the process of its record is alive.
PortAnswers ==
  {inUse \in [PersistedApps -> BOOLEAN] :
     \A pa \in PersistedApps : inUse[pa] => isProcessRunning(Record(pa).pid)}

\* portListening after the loop of updateStats over the records of the state:
\* the answer of isPortInUse for a record running or starting, false for any
\* other record, and no change for a key without a record.
portListeningAfter(inUse) ==
  [pa \in PersistedApps |->
     IF Record(pa).status \in {"running", "starting"} THEN inUse[pa] ELSE FALSE]
    @@ tui.portListening

\* One call of updateStats, from its loadState to its return; no log file has
\* lines to truncate.
UpdateStats ==
  /\ boot.pc = "ready"
  /\ tui.statsCalls < MaxTicks
  /\ HasActiveProjects(loadState(file))
  /\ \E inUse \in PortAnswers :
       tui' = [tui EXCEPT !.portListening = portListeningAfter(inUse),
                          !.statsCalls = @ + 1,
                          !.truncateCounter =
                             IF @ + 1 >= TruncateEvery THEN 0 ELSE @ + 1]
  /\ UNCHANGED <<supervisorVars, portVars, logVars>>

\* Projects are started and stopped while updateStats is called; the
\* handlers of the children, which do not touch portListening, are left out.
NextListen ==
  \/ OsStep
  \/ Verify
  \/ Adopt
  \/ \E p \in Projects : StartProject(p, UiConfig)
  \/ StartLoad
  \/ StartWrite
  \/ \E p \in Projects : StopProject(p)
  \/ StopLoad
  \/ StopKilled
  \/ StopAdoptedKilled
  \/ StopReturns
  \/ UpdateStats

SpecListen == Init /\ [][NextListen]_vars

\* The step on which a call of updateStats returns.
StatsReturns == tui'.statsCalls = tui.statsCalls + 1

\* C38: after a project has been stopped with stopProject and a subsequent
\* updateStats has completed, isAppListening is false for each of the
\* project's apps and getListeningAppCount reports 0 listening; and after any
\* updateStats an app is reported listening only if it has a persisted record
\* in status running or starting.
C38_ListeningOnlyIfRecorded ==
  [][StatsReturns =>
       /\ \A p \in Projects : StoppedLast(p) => getListeningAppCount(p)' = 0
       /\ \A pa \in Projects \X Apps :
            isAppListening(pa[1], pa[2])' =>
              /\ pa \in PersistedApps
              /\ Record(pa).status \in {"running", "starting"}]_vars


(* ------------------------- the search match cursor --------------------- *)

\* The cursor is a position of the list of matches.
CursorValid ==
  Len(tui.searchMatches) > 0 =>
    /\ 0 <= tui.searchMatchIndex
    /\ tui.searchMatchIndex < Len(tui.searchMatches)

\* The log view handles the key.
Pressed(key) ==
  /\ ~tui.searchMode
  /\ tui.viewMode = "logs"
  /\ logBuffers' = logBuffers
  /\ tui' = handleLogKeypress(tui, key)

\* C39: after any sequence of key events in the log view (search typing,
\* backspace, Enter, Escape, n, N, /), whenever the list of search matches is
\* not empty the match cursor is a valid position in it; n moves the cursor to
\* the next match and from the last to the first, N to the one before and
\* from the first to the last.
C39_CursorStaysInMatches ==
  /\ []CursorValid
  /\ [][Len(tui.searchMatches) > 0 =>
          /\ Pressed("n") =>
               tui'.searchMatchIndex =
                 IF tui.searchMatchIndex = Len(tui.searchMatches) - 1
                   THEN 0 ELSE tui.searchMatchIndex + 1
          /\ Pressed("N") =>
               tui'.searchMatchIndex =
                 IF tui.searchMatchIndex = 0
                   THEN Len(tui.searchMatches) - 1 ELSE tui.searchMatchIndex - 1]_vars

\* With three matches, where forward and backward differ, the cursor is on
\* the last of them in the log view.
C39_Witness ==
  /\ ~tui.searchMode
  /\ tui.viewMode = "logs"
  /\ Len(tui.searchMatches) = 3
  /\ tui.searchMatchIndex = 2

====
